---- MODULE Spec2Model ----
(***************************************************************************)
(* Model of the memov snapshot/versioning engine                           *)
(* (src/memov/core/manager.py, src/memov/core/git.py).                     *)
(*                                                                         *)
(* State: the working directory, the .memignore rules, the bare            *)
(* repository's commit objects and its refs/memov/HEAD reference, the      *)
(* branch registry (.mem/branches.json), the jump log (.mem/jump.json),    *)
(* the pending-writes queue (.mem/pending_writes.json) with the manager's  *)
(* in-memory copy of it, the vector index the queue is synced to, and      *)
(* the position and locals of a running call.  ops counts the calls that   *)
(* changed the project, and bounds a run.                                  *)
(*                                                                         *)
(* Commit ids are allocated in creation order (git derives them from the   *)
(* tree, the parent, the message and the time; two commits made by         *)
(* different calls are taken to differ).  Paths are flat file names; the   *)
(* registry's legacy jump_from field, which no operation reads, is left    *)
(* out.                                                                    *)
(*                                                                         *)
(* Three parts of the engine are studied on their own, each in a state of  *)
(* its own: the text of a commit message and of the note attached to the   *)
(* commit, with what get_history reads from them (text); the nested tree   *)
(* made of paths with directories (built); and the pending writes a        *)
(* second manager of the same project holds in memory (other).             *)
(***************************************************************************)
EXTENDS Integers, Sequences, FiniteSets, TLC

\* ---------------------------------------------------------------- bounds
\* calls of the manager that change the project in one run; edits of the
\* working directory between the calls are not counted
MaxOps == 4

Paths == {"a", "b"}      \* project-relative file names
Contents == {1, 2}       \* file contents
\* the contents a file is given: "a" has two versions, "b" one
ContentsOf(p) == IF p = "a" THEN Contents ELSE {1}
Ignorable == {"b"}       \* paths a .memignore pattern may match
RenamePairs == {<<"b", "a">>}   \* the (old, new) pairs rename is called with

\* ------------------------------------------------------------- constants
\* a path with no file on disk (os.path.exists is False)
Absent == 0
\* a path with no entry in a tree
NoBlob == 0
\* null in a JSON file
JsonNull == -1
\* "" : an id that resolves to no commit
NoCommit == 0
\* None : no current branch
NoBranch == ""
MainBranch == "main"
ProjectRoot == "/proj/"

JumpName(i) == "jump/" \o ToString(i)
\* the names create, delete and switch are called with
BranchNames == {MainBranch, JumpName(1)}

\* -------------------------------------------------------------- variables
VARIABLES
    wd,          \* working directory: path -> content or Absent
    memignore,   \* paths matched by the .memignore patterns
    commits,     \* object store: commit id -> [parent, tree]
    head,        \* refs/memov/HEAD: a commit id or NoCommit
    registry,    \* branches.json: [exists, current, branches]
    jumpLog,     \* jump.json "history"
    pending,     \* pending_writes.json: the entries last saved
    pendingFile, \* whether pending_writes.json exists
    cache,       \* self._pending_writes of the running manager
    index,       \* commit ids the vector index has received, in order
    syncFailed,  \* commit ids a sync failed to deliver and logged
    wEntry,      \* a write: the entry its commit is about to queue
    pc,          \* position of the running call, "idle" when none runs
    jTarget,     \* jump: full_hash
    jTodo,       \* jump: entries of all_tracked_files not yet visited
    jArchive,    \* jump: [ok, tree] result of git_archive
    last,        \* the last step taken and what it returned
    ops,         \* calls that changed the project so far
    other,       \* self._pending_writes of a second manager, not in use
    text,        \* a commit message, its note and what was read from them
    built        \* the files of a write, the tree made of them and its reading

prog == <<wd, memignore, commits, head, registry, jumpLog, pending,
          pendingFile, cache, index, syncFailed, wEntry, pc, jTarget, jTodo,
          jArchive, last, other, text, built>>
vars == <<prog, ops>>

durable == <<wd, commits, head, registry, jumpLog, pending, pendingFile,
             cache, index, syncFailed>>
\* what the operations of the project leave alone
aside == <<other, text, built>>
queue == <<pending, pendingFile, cache, index, syncFailed, wEntry, aside>>
jumpLocals == <<jTarget, jTodo, jArchive>>

\* ------------------------------------------------------ object store
EmptyMap == [n \in {} |-> NoCommit]
EmptyTree == [p \in Paths |-> NoBlob]
NoRegistry == [exists |-> FALSE, current |-> NoBranch, branches |-> EmptyMap]
NoArchive == [ok |-> FALSE, tree |-> EmptyTree]

\* git hash-object: the blob id of a content
HashObject(c) == 10 + c

AbsPath(p) == ProjectRoot \o p
RelPath(f) == CHOOSE p \in Paths : AbsPath(p) = f

TreePaths(t) == {p \in Paths : t[p] # NoBlob}

\* git rev-parse <ref>
Resolves(c) == c \in 1..Len(commits)

\* GitManager.get_files_and_blobs_by_commit
TreeOf(c) == IF Resolves(c) THEN commits[c].tree ELSE EmptyTree

\* GitManager.get_files_by_commit: (rel paths, abs paths)
FilesByCommit(c) == TreePaths(TreeOf(c))
AbsFilesByCommit(c) == {AbsPath(p) : p \in FilesByCommit(c)}

ParentOf(c) == IF Resolves(c) THEN commits[c].parent ELSE NoCommit

\* GitManager.get_commit_history: the commits reachable from tip
RECURSIVE Ancestry(_)
Ancestry(tip) ==
    IF ~Resolves(tip) THEN {} ELSE {tip} \cup Ancestry(commits[tip].parent)

\* git update-ref refs/memov/HEAD <id>: fails, leaving the ref, on ""
UpdateRef(hd, c) == IF c = NoCommit THEN hd ELSE c

\* ------------------------------------------------------ branch registry
CurrentTip(reg) ==
    IF reg.exists /\ reg.current \in DOMAIN reg.branches
    THEN reg.branches[reg.current] ELSE NoCommit

\* MemovManager._validate_and_fix_branches
ValidateAndFixBranches(reg, hd) ==
    IF ~reg.exists THEN reg
    ELSE [exists |-> TRUE,
          current |-> IF reg.current # NoBranch
                         /\ reg.current \notin DOMAIN reg.branches
                      THEN MainBranch ELSE reg.current,
          branches |-> [n \in DOMAIN reg.branches |->
                          IF reg.branches[n] = NoCommit /\ n = MainBranch
                             /\ hd # NoCommit
                          THEN hd ELSE reg.branches[n]]]

\* _update_branch, had it made the first branch without selecting it
UpdateBranchUnselected(reg, new_commit) ==
    IF ~reg.exists
    THEN [exists |-> TRUE, current |-> NoBranch,
          branches |-> [n \in {MainBranch} |-> new_commit]]
    ELSE IF reg.current # NoBranch /\ reg.current \in DOMAIN reg.branches
    THEN [reg EXCEPT !.branches[reg.current] = new_commit]
    ELSE reg

\* MemovManager._update_branch (reset_current_branch = False)
UpdateBranch(reg, new_commit) ==
    IF ~reg.exists
    THEN [exists |-> TRUE, current |-> MainBranch,
          branches |-> [n \in {MainBranch} |-> new_commit]]
    ELSE IF reg.current # NoBranch /\ reg.current \in DOMAIN reg.branches
    THEN [reg EXCEPT !.branches[reg.current] = new_commit]
    ELSE reg

\* _filter_new_files, had it kept the paths already tracked
FilterNewFilesKeepTracked(file_paths, tracked, exclude_memignore, w, ign) ==
    {p \in file_paths : /\ w[p] # Absent
                        /\ ~(exclude_memignore /\ p \in ign)}

\* MemovManager._filter_new_files
FilterNewFiles(file_paths, tracked, exclude_memignore, w, ign) ==
    {p \in file_paths : /\ w[p] # Absent
                        /\ p \notin tracked
                        /\ ~(exclude_memignore /\ p \in ign)}

\* ------------------------------------------------------ tree building
\* GitManager.write_blob_to_bare_repo: every listed file must hash
CanWriteBlobs(files, w) == files # {} /\ \A p \in files : w[p] # Absent

BlobTree(files, w) ==
    [p \in Paths |-> IF p \in files THEN HashObject(w[p]) ELSE NoBlob]

\* track, had it re-read the tracked files that are on disk
TrackTreeRehash(headTree, new_files, w) ==
    [p \in Paths |-> IF (headTree[p] # NoBlob \/ p \in new_files)
                        /\ w[p] # Absent
                     THEN HashObject(w[p]) ELSE headTree[p]]

\* MemovManager.track: tracked paths keep HEAD's blob, new files are hashed
TrackTree(headTree, new_files, w) ==
    [p \in Paths |-> IF headTree[p] # NoBlob THEN headTree[p]
                     ELSE IF p \in new_files THEN HashObject(w[p])
                     ELSE NoBlob]

\* scoped mode, had it re-read every tracked file as full mode does
ScopedTreeRehashAll(headTree, tracked_specified, w) ==
    [p \in Paths |-> IF headTree[p] = NoBlob THEN NoBlob
                     ELSE IF w[p] # Absent THEN HashObject(w[p])
                     ELSE headTree[p]]

\* MemovManager.snapshot, scoped mode: specified files that exist are
\* hashed, every other tracked path keeps HEAD's blob
ScopedTree(headTree, tracked_specified, w) ==
    [p \in Paths |-> IF headTree[p] = NoBlob THEN NoBlob
                     ELSE IF p \in tracked_specified /\ w[p] # Absent
                     THEN HashObject(w[p])
                     ELSE headTree[p]]

\* MemovManager._add_to_pending_writes, called when HEAD reads hdNow
PendingEntry(type, c, files, hdNow) ==
    [operation_type |-> type, commit_hash |-> c,
     parent_hash |-> IF hdNow # NoCommit /\ hdNow # c THEN hdNow ELSE NoCommit,
     files |-> files]

\* no entry waits to be queued
NoEntry == PendingEntry("", NoCommit, {}, NoCommit)

\* json.dump / json.load of one entry: None is written as null
JsonDump(e) ==
    [e EXCEPT !.parent_hash = IF @ = NoCommit THEN JsonNull ELSE @]

JsonLoad(j) ==
    [j EXCEPT !.parent_hash = IF @ = JsonNull THEN NoCommit ELSE @]

\* a save that wrote the newest entry only
SaveNewestOnly(mem) ==
    IF mem = <<>> THEN <<>> ELSE <<JsonDump(mem[Len(mem)])>>

\* MemovManager._save_pending_writes: the whole list is rewritten
SavePendingWrites(mem) == [i \in 1..Len(mem) |-> JsonDump(mem[i])]

\* MemovManager._load_pending_writes
LoadPendingWrites(file, exists) ==
    IF ~exists THEN <<>> ELSE [i \in 1..Len(file) |-> JsonLoad(file[i])]

\* MemovManager.get_pending_writes_count
PendingWritesCount == Len(cache)

\* the commit ids of the entries of a queue
CommitsOf(mem) == {mem[i].commit_hash : i \in 1..Len(mem)}

Returned(op, ok, made, paths) ==
    [op |-> op, ok |-> ok, made |-> made, paths |-> paths,
     target |-> NoCommit, from_branch |-> NoBranch, from_commit |-> NoCommit,
     new_branch |-> NoBranch, successful |-> 0, failed |-> 0,
     confirmed |-> FALSE, untracked |-> {}, deleted |-> {}, modified |-> {},
     at |-> ""]

\* ---------------------------------------------- commit messages and notes
\* a text is a sequence of lines and a line a sequence of words, so that
\* line.startswith(label) reads "the first word of the line is the label"
Blank == <<>>
\* the string ""
Empty == <<Blank>>
\* None, which is no string
PyNone == <<>>
\* what an f-string makes of None
NoneText == <<<<"None">>>>
\* the commit under study has no note
NoNote == <<>>

\* the prompts, responses and agent plans given to the calls: one line, two
\* lines, a trailing newline, a second line that begins with a label, ""
Values ==
    {<<<<"x">>>>, <<<<"x">>, <<"y">>>>, <<<<"x">>, Blank>>,
     <<<<"x">>, <<"Source:", "y">>>>, Empty}
Optional == Values \cup {PyNone}
\* the prompts and responses given to amend_commit_message
Amended == {<<<<"n">>>>, <<<<"n">>, <<"m">>>>, Empty, PyNone}

\* str.strip on a text as far as lines go: the blank lines at both ends go
RECURSIVE LStrip(_)
LStrip(t) ==
    IF t = <<>> THEN <<>>
    ELSE IF t[1] = Blank THEN LStrip(Tail(t)) ELSE t
RECURSIVE RStrip(_)
RStrip(t) ==
    IF t = <<>> THEN <<>>
    ELSE IF t[Len(t)] = Blank THEN RStrip(SubSeq(t, 1, Len(t) - 1)) ELSE t
Strip(t) == LET s == RStrip(LStrip(t)) IN IF s = <<>> THEN Empty ELSE s

\* f"{label} {value}": the label opens the first line of the value
Str(value) == IF value = PyNone THEN NoneText ELSE value
Field(label, value) ==
    <<<<label>> \o Str(value)[1]>> \o Tail(Str(value))
SourceField(by_user) == <<<<"Source:", IF by_user THEN "User" ELSE "AI">>>>
FilesField(files) == <<<<"Files:", files>>>>

\* the messages the writes compose
TrackMessage(prompt, response, by_user) ==
    <<<<"Track files">>, Blank>> \o FilesField("a")
        \o Field("Prompt:", prompt) \o Field("Response:", response)
        \o SourceField(by_user)
\* the message of a scoped snapshot had it named its files last
ScopedSnapshotFilesLast(prompt, response, agent_plan, by_user) ==
    <<<<"Create snapshot">>, Blank>>
        \o Field("Prompt:", prompt) \o Field("Response:", response)
        \o Field("Agent Plan:", agent_plan) \o SourceField(by_user)
        \o FilesField("a")
ScopedSnapshotMessage(prompt, response, agent_plan, by_user) ==
    <<<<"Create snapshot">>, Blank>> \o FilesField("a")
        \o Field("Prompt:", prompt) \o Field("Response:", response)
        \o Field("Agent Plan:", agent_plan) \o SourceField(by_user)
SnapshotMessage(prompt, response, agent_plan, by_user) ==
    <<<<"Create snapshot">>, Blank>>
        \o Field("Prompt:", prompt) \o Field("Response:", response)
        \o Field("Agent Plan:", agent_plan) \o SourceField(by_user)
PromptOnlyMessage(prompt, response, agent_plan, by_user) ==
    <<<<"[prompt-only] Record interaction">>, Blank>>
        \o Field("Prompt:", prompt) \o Field("Response:", response)
        \o Field("Agent Plan:", agent_plan) \o SourceField(by_user)
RenameMessage(prompt, response, by_user) ==
    <<<<"Rename file">>, Blank>> \o FilesField("b -> a")
        \o Field("Prompt:", prompt) \o Field("Response:", response)
        \o SourceField(by_user)
RemoveMessage(prompt, response, by_user) ==
    <<<<"Remove file">>, Blank>> \o FilesField("a")
        \o Field("Prompt:", prompt) \o Field("Response:", response)
        \o SourceField(by_user)

\* the writes, and those of them that take an agent plan
Writes == {"track", "snapshot_files", "snapshot", "prompt", "rename", "remove"}
Planned == {"snapshot_files", "snapshot", "prompt"}
CommitMessage(kind, prompt, response, agent_plan, by_user) ==
    CASE kind = "track" -> TrackMessage(prompt, response, by_user)
      [] kind = "snapshot_files" ->
            ScopedSnapshotMessage(prompt, response, agent_plan, by_user)
      [] kind = "snapshot" ->
            SnapshotMessage(prompt, response, agent_plan, by_user)
      [] kind = "prompt" ->
            PromptOnlyMessage(prompt, response, agent_plan, by_user)
      [] kind = "rename" -> RenameMessage(prompt, response, by_user)
      [] kind = "remove" -> RemoveMessage(prompt, response, by_user)

\* GitManager.get_commit_message and GitManager.get_commit_note
GetCommitMessage(message) == Strip(message)
GetCommitNote(note) == IF note = NoNote THEN Empty ELSE Strip(note)

\* MemovManager._parse_note_content
labels == {"Prompt:", "Response:", "Agent Plan:"}
KeyOf(label) ==
    CASE label = "Prompt:" -> "prompt"
      [] label = "Response:" -> "response"
      [] label = "Agent Plan:" -> "agent_plan"
NoKey == "none"
NothingParsed == [prompt |-> Empty, response |-> Empty, agent_plan |-> Empty]
SaveSection(result, current_key, current_lines) ==
    IF current_key = NoKey THEN result
    ELSE [result EXCEPT ![current_key] = Strip(current_lines)]
RECURSIVE ParseLines(_, _, _, _)
ParseLines(lines, result, current_key, current_lines) ==
    IF lines = <<>> THEN SaveSection(result, current_key, current_lines)
    ELSE LET line == lines[1]
         IN  IF line # Blank /\ line[1] \in labels
             THEN ParseLines(Tail(lines),
                             SaveSection(result, current_key, current_lines),
                             KeyOf(line[1]), <<Tail(line)>>)
             ELSE ParseLines(Tail(lines), result, current_key,
                             IF current_key = NoKey THEN current_lines
                             ELSE Append(current_lines, line))
ParseNoteContent(content) ==
    IF content = Empty THEN NothingParsed
    ELSE ParseLines(content, NothingParsed, NoKey, <<>>)

\* MemovManager.amend_commit_message: the note it composes, and the calls
\* it refuses
NoteContent(prompt, response, by_user) ==
    (IF prompt # PyNone THEN Field("Prompt:", prompt) ELSE <<>>)
        \o (IF response # PyNone THEN Field("Response:", response) ELSE <<>>)
        \o SourceField(by_user)
Falsy(value) == value = PyNone \/ value = Empty

\* MemovManager.get_history, for one commit: the fields of the note come
\* before those of the message, and "" and "None" are reported as None
Reported(value) == IF value = Empty \/ value = NoneText THEN PyNone ELSE value
HistoryEntry(message, note) ==
    LET parsed == ParseNoteContent(GetCommitMessage(message))
        note_content == GetCommitNote(note)
        note_parsed == ParseNoteContent(note_content)
        Pick(key) == IF note_content # Empty /\ note_parsed[key] # Empty
                     THEN note_parsed[key] ELSE parsed[key]
    IN  [prompt |-> Reported(Pick("prompt")),
         response |-> Reported(Pick("response")),
         agent_plan |-> Reported(Pick("agent_plan"))]

\* no commit is under study yet
NoText ==
    [kind |-> "none", prompt |-> PyNone, response |-> PyNone,
     agent_plan |-> PyNone, by_user |-> FALSE, message |-> Empty,
     note |-> NoNote, note_prompt |-> PyNone, note_response |-> PyNone,
     read |-> FALSE, parsed |-> NothingParsed,
     entry |-> [prompt |-> PyNone, response |-> PyNone,
                agent_plan |-> PyNone]]

\* ------------------------------------------------------- nested trees
\* a relative path is a sequence of names and separators, a blob id a name
NestedPaths ==
    {<<"e">>, <<"a">>, <<"a", "/", "b">>, <<"a", "/", "d">>,
     <<"a", "\\", "d">>, <<"a", "/", "b", "/", "c">>,
     <<"a", "\\", "b", "\\", "c">>}
BlobHashes == {"h1", "h2"}

\* memov.utils.string_utils.normalize_path_separator
NormalizePathSeparator(path) ==
    [i \in 1..Len(path) |-> IF path[i] = "\\" THEN "/" ELSE path[i]]

\* str.split: the pieces of a path between the occurrences of a separator
RECURSIVE SplitOn(_, _)
SplitOn(path, sep) ==
    IF \A i \in 1..Len(path) : path[i] # sep THEN <<path>>
    ELSE LET i == CHOOSE k \in 1..Len(path) :
                      path[k] = sep /\ \A j \in 1..(k - 1) : path[j] # sep
         IN  <<SubSeq(path, 1, i - 1)>>
                 \o SplitOn(SubSeq(path, i + 1, Len(path)), sep)

\* a split that knows the forward slash only
SplitUnixOnly(rel_path) == SplitOn(rel_path, "/")

\* memov.utils.string_utils.split_path_parts
SplitPathParts(rel_path) == SplitOn(NormalizePathSeparator(rel_path), "/")

\* a dict, and the two values its keys have in a tree structure
NoKeys == [k \in {} |-> k]
Put(dict, key, value) ==
    [k \in DOMAIN dict \cup {key} |-> IF k = key THEN value ELSE dict[k]]
BlobAt(blob_hash) == [is_dict |-> FALSE, blob |-> blob_hash, dict |-> NoKeys]
DictAt(dict) == [is_dict |-> TRUE, blob |-> "", dict |-> dict]

\* the loop over parts[:-1] and the assignment of the blob: a part that
\* names a blob cannot be descended into and raises TypeError
Raised == [ok |-> FALSE, dict |-> NoKeys]
RECURSIVE InsertParts(_, _, _)
InsertParts(current, parts, blob_hash) ==
    IF Len(parts) = 1
    THEN [ok |-> TRUE, dict |-> Put(current, parts[1], BlobAt(blob_hash))]
    ELSE LET part == parts[1]
             below == IF part \in DOMAIN current THEN current[part]
                      ELSE DictAt(NoKeys)
         IN  IF ~below.is_dict THEN Raised
             ELSE LET sub == InsertParts(below.dict, Tail(parts), blob_hash)
                  IN  IF ~sub.ok THEN Raised
                      ELSE [ok |-> TRUE,
                            dict |-> Put(current, part, DictAt(sub.dict))]

\* the loop over the files: each is inserted by its parts, in the order
\* given
RECURSIVE TreeStructure(_, _)
TreeStructure(tree_structure, new_files) ==
    IF new_files = <<>> THEN [ok |-> TRUE, dict |-> tree_structure]
    ELSE LET put == InsertParts(tree_structure,
                                SplitPathParts(new_files[1].path),
                                new_files[1].blob)
         IN  IF ~put.ok THEN Raised
             ELSE TreeStructure(put.dict, Tail(new_files))

\* create_tree_recursive: a git tree is the set of its entries, a subtree
\* standing for its id
RECURSIVE CreateTreeRecursive(_)
CreateTreeRecursive(structure) ==
    {IF structure[name].is_dict
     THEN [mode |-> "040000", type |-> "tree", name |-> name,
           object |-> CreateTreeRecursive(structure[name].dict)]
     ELSE [mode |-> "100644", type |-> "blob", name |-> name,
           object |-> structure[name].blob] : name \in DOMAIN structure}

\* git ls-tree -r: the blobs of a tree under their paths
RECURSIVE LsTree(_)
LsTree(tree) ==
    {[path |-> e.name, blob |-> e.object] : e \in {x \in tree : x.type = "blob"}}
    \cup UNION {{[path |-> e.name \o <<"/">> \o f.path, blob |-> f.blob] :
                    f \in LsTree(e.object)} :
                e \in {x \in tree : x.type = "tree"}}

\* nothing built yet from the files given
NotBuilt == {}
ToBuild(new_files) ==
    [new_files |-> new_files, done |-> FALSE, raised |-> FALSE,
     tree |-> NotBuilt, read |-> FALSE, files |-> {}]

\* ------------------------------------------------------------------ Init
Init ==
    /\ wd \in {w \in [Paths -> Contents \cup {Absent}] :
                \A p \in Paths : w[p] \in ContentsOf(p) \cup {Absent}}
    /\ memignore = {}
    /\ commits = <<>>
    /\ head = NoCommit
    /\ registry = NoRegistry
    /\ jumpLog = <<>>
    /\ pending = <<>>
    /\ pendingFile = FALSE
    /\ cache = <<>>
    /\ index = <<>>
    /\ syncFailed = {}
    /\ wEntry = NoEntry
    /\ pc = "idle"
    /\ jTarget = NoCommit
    /\ jTodo = {}
    /\ jArchive = NoArchive
    /\ last = Returned("init", TRUE, NoCommit, {})
    /\ ops = 0
    /\ other = <<>>
    /\ text = NoText
    /\ built = ToBuild(<<>>)

\* -------------------------------------------------- commit primitives
\* MemovManager._commit: validate, write blobs and commit on HEAD, then
\* _update_branch with whatever id came back ("" when the write failed)
DoCommit(files, w) ==
    LET ok == CanWriteBlobs(files, w)
        c == IF ok THEN Len(commits) + 1 ELSE NoCommit
    IN  /\ commits' = IF ok
                      THEN Append(commits, [parent |-> head,
                                            tree |-> BlobTree(files, w)])
                      ELSE commits
        /\ registry' = UpdateBranch(ValidateAndFixBranches(registry, head), c)
        /\ head' = UpdateRef(head, c)

\* GitManager.create_commit_from_tree_structure / commit_tree on HEAD,
\* followed by _validate_and_fix_branches and _update_branch
CommitFromTree(tree) ==
    LET c == Len(commits) + 1
    IN  /\ commits' = Append(commits, [parent |-> head, tree |-> tree])
        /\ registry' = UpdateBranch(ValidateAndFixBranches(registry, head), c)
        /\ head' = UpdateRef(head, c)

Made == IF Len(commits') > Len(commits) THEN Len(commits') ELSE NoCommit

\* an early return: nothing is written
NoOp == UNCHANGED prog

\* last names the latest call that changed the project, with what it
\* returned; an edit by the user resets it
Other == Returned("other", TRUE, NoCommit, {})

Record(r) ==
    last' = IF <<wd, commits, head, registry, jumpLog>>'
                = <<wd, commits, head, registry, jumpLog>>
            THEN last
            ELSE r

\* a write that made a commit goes on to queue its entry
Enqueue(entry) ==
    /\ wEntry' = IF Made # NoCommit THEN entry ELSE NoEntry
    /\ pc' = IF Made # NoCommit THEN "queue" ELSE "idle"
    /\ UNCHANGED <<pending, pendingFile, cache, index, syncFailed, aside>>

\* ------------------------------------------------------------- Track
\* MemovManager.track(file_paths)
Track(file_paths) ==
    /\ pc = "idle"
    /\ LET tracked == FilesByCommit(head)
           new_files == FilterNewFiles(file_paths, tracked, TRUE, wd, memignore)
       IN  IF new_files = {}
           THEN NoOp
           ELSE /\ IF head # NoCommit
                   THEN CommitFromTree(TrackTree(TreeOf(head), new_files, wd))
                   ELSE DoCommit(new_files, wd)
                /\ Enqueue(PendingEntry("track", Made, new_files, head'))
                /\ UNCHANGED <<wd, memignore, jumpLog, jTarget, jTodo,
                               jArchive>>
                /\ Record(Returned("track", TRUE, Made, file_paths))

\* ---------------------------------------------------------- Snapshot
\* MemovManager.snapshot(file_paths): scoped mode when file_paths is given
SnapshotScoped(file_paths) ==
    /\ pc = "idle"
    /\ LET tracked == FilesByCommit(head)
           tracked_specified == file_paths \cap tracked
       IN  IF registry.exists /\ registry.current = NoBranch
           THEN NoOp
           ELSE IF tracked = {} \/ tracked_specified = {}
           THEN NoOp
           ELSE /\ CommitFromTree(
                       ScopedTree(TreeOf(head), tracked_specified, wd))
                /\ Enqueue(
                       PendingEntry("snap", Made, tracked_specified, head'))
                /\ UNCHANGED <<wd, memignore, jumpLog, jTarget, jTodo,
                               jArchive>>
                /\ Record(Returned("snapshot_scoped", TRUE, Made, file_paths))

\* MemovManager.snapshot(): full mode, every tracked path is re-read
SnapshotFull ==
    /\ pc = "idle"
    /\ LET tracked == FilesByCommit(head)
       IN  IF registry.exists /\ registry.current = NoBranch
           THEN NoOp
           ELSE IF tracked = {}
           THEN NoOp
           ELSE /\ DoCommit(tracked, wd)
                /\ Enqueue(PendingEntry("snap", Made, tracked, head'))
                /\ UNCHANGED <<wd, memignore, jumpLog, jTarget, jTodo,
                               jArchive>>
                /\ Record(Returned("snapshot", TRUE, Made, {}))

\* a prompt-only commit, had it taken the tree of the parent of HEAD
ParentTreeHash(commit_id) == TreeOf(ParentOf(commit_id))

\* GitManager.get_tree_hash: the tree a commit names
GetTreeHash(commit_id) == TreeOf(commit_id)

\* MemovManager.create_prompt_only_commit
PromptOnlyCommit ==
    /\ pc = "idle"
    /\ IF (registry.exists /\ registry.current = NoBranch) \/ head = NoCommit
       THEN NoOp
       ELSE /\ CommitFromTree(GetTreeHash(head))
            /\ Enqueue(PendingEntry("prompt-only", Made, {}, head'))
            /\ UNCHANGED <<wd, memignore, jumpLog, jTarget, jTodo,
                           jArchive>>
            /\ Record(Returned("prompt-only", TRUE, Made, {}))

\* ------------------------------------------------------ Rename / Remove
\* rename and remove, had they not tested the tracked files
NeverUntracked(rel_path, tracked_files) == FALSE

\* MemovManager.rename, MemovManager.remove: "not in tracked_files", the
\* files of the commit refs/memov/HEAD names
Untracked(rel_path, tracked_files) == rel_path \notin tracked_files

\* MemovManager.rename(old_file_path, new_file_path)
Rename(old, new) ==
    /\ pc = "idle"
    /\ old # new
    /\ LET old_file_existed == wd[old] # Absent
           new_file_existed == wd[new] # Absent
           wd1 == IF old_file_existed
                  THEN [wd EXCEPT ![new] = wd[old], ![old] = Absent]
                  ELSE wd
           file_list == FilterNewFiles(Paths, {}, TRUE, wd1, memignore)
       IN  IF \/ old_file_existed = new_file_existed
              \/ Untracked(old, FilesByCommit(head))
           THEN NoOp
           ELSE /\ wd' = wd1
                /\ DoCommit(file_list, wd1)
                /\ Enqueue(PendingEntry("rename", Made, {old, new}, head'))
                /\ UNCHANGED <<memignore, jumpLog, jTarget, jTodo,
                               jArchive>>
                /\ Record(Returned("rename", TRUE, Made, {old}))

\* remove, had it listed every file of the working directory
RemainingOnDisk(tracked, path, w) == {p \in Paths : w[p] # Absent}

\* MemovManager.remove: the file list of the commit, the tracked files but
\* the target that are on disk
RemainingTracked(tracked, path, w) ==
    {p \in tracked : p # path /\ w[p] # Absent}

\* remove, had it deleted the file without asking
NeverDeclined(on_disk, confirmed) == FALSE

\* MemovManager.remove: the prompt is shown for a file that is on disk, and
\* any answer but "y" returns before os.remove
Declined(on_disk, confirmed) == on_disk /\ ~confirmed

\* MemovManager.remove(file_path); confirmed is the answer to the prompt,
\* which last keeps when the prompt was shown
Remove(path, confirmed) ==
    /\ pc = "idle"
    /\ LET tracked == FilesByCommit(head)
           wd1 == [wd EXCEPT ![path] = Absent]
           file_list == RemainingTracked(tracked, path, wd1)
       IN  IF Untracked(path, tracked) \/ Declined(wd[path] # Absent, confirmed)
           THEN NoOp
           ELSE /\ wd' = wd1
                /\ DoCommit(file_list, wd1)
                /\ Enqueue(PendingEntry("remove", Made, {path}, head'))
                /\ UNCHANGED <<memignore, jumpLog, jTarget, jTodo,
                               jArchive>>
                /\ Record([Returned("remove", TRUE, Made, {path})
                             EXCEPT !.confirmed =
                                       wd[path] # Absent /\ confirmed])

\* ------------------------------------------------------ pending writes
\* MemovManager._add_to_pending_writes, as the write that made the commit
\* calls it: the entry joins the list in memory and the list is saved
AddToPendingWrites ==
    /\ pc = "queue"
    /\ cache' = Append(cache, wEntry)
    /\ pending' = SavePendingWrites(cache')
    /\ pendingFile' = TRUE
    /\ wEntry' = NoEntry
    /\ pc' = "idle"
    /\ UNCHANGED <<wd, memignore, commits, head, registry, jumpLog, index,
                   syncFailed, jTarget, jTodo, jArchive, last,
                   aside>>

\* the n-th smallest member of a set of positions
RECURSIVE Nth(_, _)
Nth(S, n) ==
    LET m == CHOOSE x \in S : \A y \in S : x <= y
    IN  IF n = 1 THEN m ELSE Nth(S \ {m}, n - 1)

\* a sync that left the list as it was
UnsyncedAll(mem) == mem

\* MemovManager.sync_to_vectordb: what stays queued after the loop
Unsynced(mem) == <<>>

\* MemovManager.sync_to_vectordb; delivered are the positions of the
\* entries whose insert_splitted does not raise, and the loop inserts them
\* in the order of the list
SyncToVectordb(delivered) ==
    /\ pc = "idle"
    /\ delivered \subseteq 1..Len(cache)
    /\ IF cache = <<>>
       THEN NoOp
       ELSE LET successful == Cardinality(delivered)
                failed == Len(cache) - successful
            IN  /\ index' = index \o [i \in 1..successful |->
                                       cache[Nth(delivered, i)].commit_hash]
                /\ syncFailed' = syncFailed \cup
                      {cache[i].commit_hash : i \in (1..Len(cache)) \ delivered}
                /\ cache' = Unsynced(cache)
                /\ pending' = <<>>
                /\ pendingFile' = FALSE
                /\ last' = [Returned("sync", TRUE, NoCommit, {})
                              EXCEPT !.successful = successful,
                                     !.failed = failed]
                /\ UNCHANGED <<wd, memignore, commits, head, registry, jumpLog,
                               wEntry, pc, jTarget, jTodo, jArchive, aside>>

\* MemovManager.clear_pending_writes
ClearPendingWrites ==
    /\ pc = "idle"
    /\ cache' = <<>>
    /\ pending' = <<>>
    /\ pendingFile' = FALSE
    /\ last' = IF cache = <<>> /\ ~pendingFile THEN last
               ELSE Returned("clear", TRUE, NoCommit, {})
    /\ UNCHANGED <<wd, memignore, commits, head, registry, jumpLog, index,
                   syncFailed, wEntry, pc, jTarget, jTodo, jArchive,
                   aside>>

\* the process stops, between two calls or after a write's commit and
\* before its entry is queued, and MemovManager.__init__ runs again
Restart ==
    /\ pc \in {"idle", "queue"}
    /\ cache' = LoadPendingWrites(pending, pendingFile)
    /\ wEntry' = NoEntry
    /\ pc' = "idle"
    /\ last' = IF pc = "queue" THEN Returned("restart", FALSE, last.made, {})
               ELSE last
    /\ UNCHANGED <<wd, memignore, commits, head, registry, jumpLog, pending,
                   pendingFile, index, syncFailed, jTarget, jTodo, jArchive,
                   aside>>

\* ------------------------------------------------------------------ Jump
\* MemovManager._generate_jump_branch_name
RECURSIVE FirstFreeJump(_, _)
\* the loop, had it stopped at once
FirstJump(branches, i) == i

FirstFreeJump(branches, i) ==
    IF JumpName(i) \in DOMAIN branches
    THEN FirstFreeJump(branches, i + 1) ELSE i

GenerateJumpBranchName(branches) == JumpName(FirstFreeJump(branches, 1))

\* MemovManager.jump: the paths (absolute) of every file of every commit
\* in the history of every branch tip
AllTrackedFiles(reg) ==
    UNION {AbsFilesByCommit(c) :
             c \in UNION {Ancestry(reg.branches[n]) : n \in DOMAIN reg.branches}}

\* jump, had it not tested the archive
ArchiveNeverFailed(archive) == FALSE

\* MemovManager.jump: "if archive is None"
ArchiveFailed(archive) == ~archive.ok

\* MemovManager.jump: the test guarding os.remove; file_path is an entry
\* of all_tracked_files, snapshot_files the first list returned by
\* get_files_by_commit
ShouldRemove(file_path, snapshot_files, w) ==
    file_path \notin snapshot_files /\ w[RelPath(file_path)] # Absent

\* the content a blob id stands for (git cat-file)
ContentOf(b) == b - 10

\* an extraction that keeps the files already on disk
ExtractMissing(w, tree) ==
    [p \in Paths |-> IF tree[p] # NoBlob /\ w[p] = Absent
                     THEN ContentOf(tree[p]) ELSE w[p]]

\* tarfile.extractall: every member of the archive is written
ExtractAll(w, tree) ==
    [p \in Paths |-> IF tree[p] # NoBlob THEN ContentOf(tree[p]) ELSE w[p]]

\* jump, had it moved the branch it leaves onto the target as well
JumpBranchesReset(reg, new_branch, full_hash) ==
    [exists |-> TRUE, current |-> new_branch,
     branches |-> [n \in DOMAIN reg.branches \cup {new_branch} |->
                     IF n = new_branch \/ n = reg.current
                     THEN full_hash ELSE reg.branches[n]]]

\* MemovManager.jump: the registry saved after the extraction
JumpBranches(reg, new_branch, full_hash) ==
    [exists |-> TRUE, current |-> new_branch,
     branches |-> [n \in DOMAIN reg.branches \cup {new_branch} |->
                     IF n = new_branch THEN full_hash ELSE reg.branches[n]]]

\* _record_jump, had it numbered every record 1
RecordJumpUnnumbered(log, from_commit, to_commit, from_branch, new_branch) ==
    Append(log, [id |-> 1, from_commit |-> from_commit,
                 to_commit |-> to_commit, from_branch |-> from_branch,
                 new_branch |-> new_branch])

\* MemovManager._record_jump
RecordJump(log, from_commit, to_commit, from_branch, new_branch) ==
    LET ids == {log[i].id : i \in 1..Len(log)}
        next_id == IF ids = {} THEN 1
                   ELSE (CHOOSE m \in ids : \A k \in ids : k <= m) + 1
    IN  Append(log, [id |-> next_id, from_commit |-> from_commit,
                     to_commit |-> to_commit, from_branch |-> from_branch,
                     new_branch |-> new_branch])

JumpReturn(ok) ==
    /\ pc' = "idle"
    /\ jTarget' = NoCommit
    /\ jTodo' = {}
    /\ jArchive' = NoArchive
    /\ last' = IF ok THEN [last EXCEPT !.ok = ok]
               ELSE Returned("jump", FALSE, NoCommit, {})

\* MemovManager.jump, the deletion loop: every entry of all_tracked_files
\* that passes the test is removed
RemoveStale(all_tracked_files, snapshot_files, w) ==
    [p \in Paths |->
       IF AbsPath(p) \in all_tracked_files
          /\ ShouldRemove(AbsPath(p), snapshot_files, w)
       THEN Absent ELSE w[p]]

\* jump, lines 1214-1240: resolve the ref, load the registry, collect the
\* files ever tracked, export the archive.  ref = NoCommit stands for a ref
\* that does not resolve; exported says whether git archive succeeded
JumpPrepare(ref, exported) ==
    /\ pc = "idle"
    /\ LET archive == IF exported
                      THEN [ok |-> TRUE, tree |-> TreeOf(ref)]
                      ELSE NoArchive
       IN  IF ~Resolves(ref) \/ ~registry.exists \/ ArchiveFailed(archive)
           THEN /\ last' = Returned("jump", FALSE, NoCommit, {})
                /\ UNCHANGED <<wd, memignore, commits, head, registry,
                               jumpLog, queue, pc, jTarget, jTodo, jArchive>>
           ELSE /\ pc' = "delete"
                /\ jTarget' = ref
                /\ jTodo' = AllTrackedFiles(registry)
                /\ jArchive' = archive
                /\ last' = [Returned("jump", FALSE, NoCommit, {})
                              EXCEPT !.target = ref]
                /\ UNCHANGED <<wd, memignore, commits, head, registry,
                               jumpLog, queue>>

\* jump, lines 1243-1249: the deletion loop
JumpDelete ==
    /\ pc = "delete"
    /\ wd' = RemoveStale(jTodo, FilesByCommit(jTarget), wd)
    /\ pc' = "extract"
    /\ UNCHANGED <<memignore, commits, head, registry, jumpLog, queue,
                   jTarget, jTodo, jArchive, last>>

\* jump, lines 1251-1253: extract the archive over the working directory;
\* opening an archive that is None raises, and jump returns the error
JumpExtract ==
    /\ pc = "extract"
    /\ IF ~jArchive.ok
       THEN /\ JumpReturn(FALSE)
            /\ UNCHANGED <<wd, memignore, commits, head, registry, jumpLog,
                           queue>>
       ELSE /\ wd' = ExtractAll(wd, jArchive.tree)
            /\ pc' = "branch"
            /\ UNCHANGED <<memignore, commits, head, registry, jumpLog,
                           queue, jTarget, jTodo, jArchive, last>>

\* jump, lines 1255-1274: insert the jump branch and save the registry
JumpSaveBranches ==
    /\ pc = "branch"
    /\ LET previous_branch == registry.current
           previous_head == IF previous_branch \in DOMAIN registry.branches
                            THEN registry.branches[previous_branch]
                            ELSE NoCommit
           new_branch == GenerateJumpBranchName(registry.branches)
       IN  /\ registry' = JumpBranches(registry, new_branch, jTarget)
           /\ last' = [last EXCEPT !.from_branch = previous_branch,
                                   !.from_commit = previous_head,
                                   !.new_branch = new_branch]
    /\ pc' = "ref"
    /\ UNCHANGED <<wd, memignore, commits, head, jumpLog, queue,
                   jTarget, jTodo, jArchive>>

\* jump, line 1275: move refs/memov/HEAD
JumpUpdateRef ==
    /\ pc = "ref"
    /\ head' = UpdateRef(head, jTarget)
    /\ pc' = "record"
    /\ UNCHANGED <<wd, memignore, commits, registry, jumpLog, queue,
                   jTarget, jTodo, jArchive, last>>

\* jump, had it recorded every jump
JumpAlwaysMoved(previous_head, full_hash) == TRUE

\* jump, line 1278: "previous_head and previous_head != full_hash"
JumpMoved(previous_head, full_hash) ==
    previous_head # NoCommit /\ previous_head # full_hash

\* jump, lines 1277-1287: record the jump and return
JumpRecord ==
    /\ pc = "record"
    /\ jumpLog' = IF JumpMoved(last.from_commit, jTarget)
                  THEN RecordJump(jumpLog, last.from_commit, jTarget,
                                  last.from_branch, last.new_branch)
                  ELSE jumpLog
    /\ JumpReturn(TRUE)
    /\ UNCHANGED <<wd, memignore, commits, head, registry, queue>>

\* the positions of a jump between its steps
JumpPositions == {"delete", "extract", "branch", "ref", "record"}

\* jump, lines 1242-1287, when the process is stopped: the statements
\* before position at have run, those from it on have not ("delete": none
\* yet; "extract": the deletion loop; "branch": the extraction too; "ref":
\* the registry is saved; "record": refs/memov/HEAD is moved).  The next
\* manager loads the pending writes from their file.
JumpInterrupted(at) ==
    /\ pc = "delete"
    /\ LET deleted == RemoveStale(jTodo, FilesByCommit(jTarget), wd)
           new_branch == GenerateJumpBranchName(registry.branches)
       IN  /\ wd' = IF at = "delete" THEN wd
                     ELSE IF at = "extract" THEN deleted
                     ELSE ExtractAll(deleted, jArchive.tree)
           /\ registry' = IF at \in {"ref", "record"}
                          THEN JumpBranches(registry, new_branch, jTarget)
                          ELSE registry
           /\ head' = IF at = "record" THEN UpdateRef(head, jTarget) ELSE head
    /\ cache' = LoadPendingWrites(pending, pendingFile)
    /\ pc' = "idle"
    /\ jTarget' = NoCommit
    /\ jTodo' = {}
    /\ jArchive' = NoArchive
    /\ last' = [Returned("jump", FALSE, NoCommit, {})
                  EXCEPT !.target = jTarget, !.at = at]
    /\ UNCHANGED <<memignore, commits, jumpLog, pending, pendingFile, index,
                   syncFailed, wEntry,
                   aside>>

\* --------------------------------------------------- branch operations
\* the registry and HEAD a branch operation leaves behind
BranchOp(op, reg, hd) ==
    /\ registry' = reg
    /\ head' = hd
    /\ UNCHANGED <<wd, memignore, commits, jumpLog, queue, pc, jTarget,
                   jTodo, jArchive>>
    /\ Record(Returned(op, TRUE, NoCommit, {}))

WithBranch(reg, name, c) ==
    [reg EXCEPT !.branches = [n \in DOMAIN reg.branches \cup {name} |->
                                IF n = name THEN c ELSE reg.branches[n]]]

\* MemovManager.create_branch
CreateBranch(name) ==
    /\ pc = "idle"
    /\ IF \/ ~registry.exists
          \/ name \in DOMAIN registry.branches
          \/ head = NoCommit
       THEN NoOp
       ELSE BranchOp("create", WithBranch(registry, name, head),
                     head)

\* delete_branch, had it protected main only
DeleteRefusedMainOnly(reg, name) ==
    \/ ~reg.exists
    \/ name \notin DOMAIN reg.branches
    \/ name = MainBranch

\* delete_branch, had it protected the current branch only
DeleteRefusedCurrentOnly(reg, name) ==
    \/ ~reg.exists
    \/ name \notin DOMAIN reg.branches
    \/ name = reg.current

\* MemovManager.delete_branch: the refusals
DeleteRefused(reg, name) ==
    \/ ~reg.exists
    \/ name \notin DOMAIN reg.branches
    \/ name = reg.current
    \/ name = MainBranch

DeleteBranch(name) ==
    /\ pc = "idle"
    /\ IF DeleteRefused(registry, name)
       THEN NoOp
       ELSE BranchOp("delete",
                     [registry EXCEPT !.branches =
                        [n \in DOMAIN registry.branches \ {name} |->
                           registry.branches[n]]],
                     head)

\* MemovManager.switch_branch
SwitchBranch(name) ==
    /\ pc = "idle"
    /\ IF \/ ~registry.exists
          \/ (name \notin DOMAIN registry.branches /\ head = NoCommit)
       THEN NoOp
       ELSE LET reg1 == IF name \in DOMAIN registry.branches
                        THEN registry ELSE WithBranch(registry, name, head)
            IN  BranchOp("switch",
                         [reg1 EXCEPT !.current = name],
                         UpdateRef(head, reg1.branches[name]))

\* ------------------------------------------------- edits by the user
\* a file is written, or deleted, outside any operation
EditFile(p, c) ==
    /\ pc = "idle"
    /\ wd[p] # c
    /\ wd' = [wd EXCEPT ![p] = c]
    /\ last' = Other
    /\ UNCHANGED <<memignore, commits, head, registry, jumpLog, queue,
                   pc, jTarget, jTodo, jArchive>>

\* .memignore is edited: a pattern matching p is added or removed
EditIgnore(p) ==
    /\ pc = "idle"
    /\ memignore' = IF p \in memignore THEN memignore \ {p}
                    ELSE memignore \cup {p}
    /\ last' = Other
    /\ UNCHANGED <<wd, commits, head, registry, jumpLog, queue,
                   pc, jTarget, jTodo, jArchive>>

\* ------------------------------------------------------------- Status
\* MemovManager.status
WorkspaceFiles == FilterNewFiles(Paths, {}, TRUE, wd, memignore)

StatusUntracked == {p \in WorkspaceFiles : p \notin FilesByCommit(head)}

StatusDeleted == {p \in FilesByCommit(head) : p \notin WorkspaceFiles}

\* status, had it compared the blob of every tracked file
StatusModifiedUnguarded ==
    {p \in FilesByCommit(head) : TreeOf(head)[p] # HashObject(wd[p])}

StatusModified ==
    {p \in FilesByCommit(head) \cap WorkspaceFiles :
       TreeOf(head)[p] # HashObject(wd[p])}

\* MemovManager.status: the three lists are returned; the blobs it writes
\* to the object store are named by no commit
Status ==
    /\ pc = "idle"
    /\ last' = [Returned("status", TRUE, NoCommit, {})
                  EXCEPT !.untracked = StatusUntracked,
                         !.deleted = StatusDeleted,
                         !.modified = StatusModified]
    /\ UNCHANGED <<wd, memignore, commits, head, registry, jumpLog, queue,
                   pc, jTarget, jTodo, jArchive>>

\* ------------------------------------------------------------------ Next
\* a call that changed the project, or started a jump, is counted
Completed == ops' = IF durable' # durable \/ pc' # pc THEN ops + 1 ELSE ops

Next ==
    \/ ops < MaxOps /\ \E S \in SUBSET Paths \ {{}} : (Track(S) /\ Completed)
    \/ ops < MaxOps
          /\ \E S \in SUBSET Paths \ {{}} : (SnapshotScoped(S) /\ Completed)
    \/ ops < MaxOps /\ SnapshotFull /\ Completed
    \/ ops < MaxOps /\ PromptOnlyCommit /\ Completed
    \/ ops < MaxOps
          /\ \E r \in RenamePairs : (Rename(r[1], r[2]) /\ Completed)
    \/ ops < MaxOps
          /\ \E p \in Paths, confirmed \in BOOLEAN :
                (Remove(p, confirmed) /\ Completed)
    \/ ops < MaxOps
          /\ \E ref \in 0..Len(commits), exported \in BOOLEAN :
                (JumpPrepare(ref, exported) /\ Completed)
    \/ AddToPendingWrites /\ UNCHANGED ops
    \/ JumpDelete /\ UNCHANGED ops
    \/ JumpExtract /\ UNCHANGED ops
    \/ JumpSaveBranches /\ UNCHANGED ops
    \/ JumpUpdateRef /\ UNCHANGED ops
    \/ JumpRecord /\ UNCHANGED ops
    \/ ops < MaxOps
          /\ \E name \in BranchNames \cup DOMAIN registry.branches :
                (CreateBranch(name) /\ Completed)
    \/ ops < MaxOps
          /\ \E name \in BranchNames \cup DOMAIN registry.branches :
                (DeleteBranch(name) /\ Completed)
    \/ ops < MaxOps
          /\ \E name \in BranchNames \cup DOMAIN registry.branches :
                (SwitchBranch(name) /\ Completed)
    \/ /\ \E p \in Paths : \E c \in ContentsOf(p) \cup {Absent} : EditFile(p, c)
       /\ UNCHANGED ops
    \/ (\E p \in Ignorable : EditIgnore(p)) /\ UNCHANGED ops

Spec == Init /\ [][Next]_vars

\* the pending-writes queue: the calls that append to it, its own calls, the
\* process stopping, and the edits that give the writes something to
\* record; jump and the branch operations leave the queue alone and are
\* left to Spec
NextQueue ==
    \/ ops < MaxOps /\ \E S \in SUBSET Paths \ {{}} : (Track(S) /\ Completed)
    \/ ops < MaxOps
          /\ \E S \in SUBSET Paths \ {{}} : (SnapshotScoped(S) /\ Completed)
    \/ ops < MaxOps /\ SnapshotFull /\ Completed
    \/ ops < MaxOps /\ PromptOnlyCommit /\ Completed
    \/ ops < MaxOps
          /\ \E r \in RenamePairs : (Rename(r[1], r[2]) /\ Completed)
    \/ ops < MaxOps
          /\ \E p \in Paths, confirmed \in BOOLEAN :
                (Remove(p, confirmed) /\ Completed)
    \/ AddToPendingWrites /\ UNCHANGED ops
    \/ ops < MaxOps
          /\ \E delivered \in SUBSET (1..Len(cache)) :
                (SyncToVectordb(delivered) /\ Completed)
    \/ ops < MaxOps /\ ClearPendingWrites /\ Completed
    \/ ops < MaxOps /\ Restart /\ Completed
    \/ /\ \E p \in Paths : \E c \in ContentsOf(p) \cup {Absent} : EditFile(p, c)
       /\ UNCHANGED ops
    \/ (\E p \in Ignorable : EditIgnore(p)) /\ UNCHANGED ops

SpecQueue == Init /\ [][NextQueue]_vars

\* ------------------------------------------------------- two managers
\* MemovManager.__init__ of a second manager of the same project: it loads
\* the pending writes that are on disk
ConstructManager ==
    /\ pc = "idle"
    /\ other' = LoadPendingWrites(pending, pendingFile)
    /\ UNCHANGED <<wd, memignore, commits, head, registry, jumpLog, pending,
                   pendingFile, cache, index, syncFailed, wEntry, pc,
                   jumpLocals, last, text, built>>

\* between two calls the caller turns to the other manager: its list is
\* the one the next call works on
TurnToOtherManager ==
    /\ pc = "idle"
    /\ cache' = other
    /\ other' = cache
    /\ UNCHANGED <<wd, memignore, commits, head, registry, jumpLog, pending,
                   pendingFile, index, syncFailed, wEntry, pc, jumpLocals,
                   last, text, built>>

\* the writes and the queue worked through two managers, one call at a time
NextManagers ==
    \/ ops < MaxOps /\ \E S \in SUBSET Paths \ {{}} : (Track(S) /\ Completed)
    \/ ops < MaxOps /\ SnapshotFull /\ Completed
    \/ AddToPendingWrites /\ UNCHANGED ops
    \/ ops < MaxOps
          /\ \E delivered \in SUBSET (1..Len(cache)) :
                (SyncToVectordb(delivered) /\ Completed)
    \/ ops < MaxOps /\ ClearPendingWrites /\ Completed
    \/ ConstructManager /\ UNCHANGED ops
    \/ TurnToOtherManager /\ UNCHANGED ops
    \/ /\ \E p \in Paths : \E c \in ContentsOf(p) \cup {Absent} : EditFile(p, c)
       /\ UNCHANGED ops

SpecManagers == Init /\ [][NextManagers]_vars

\* status and what it reads: the calls that fill and empty the tip's tree,
\* the edits of the files and of .memignore, and status itself
\* MemMCPTools.snap called with files_changed "" on an initialized project:
\* it makes a manager, logs the call and answers [SUCCESS]
SnapNoFilesChanged ==
    /\ pc = "idle"
    /\ last' = Returned("snap", TRUE, NoCommit, {})
    /\ UNCHANGED <<wd, memignore, commits, head, registry, jumpLog, queue,
                   pc, jTarget, jTodo, jArchive>>

NextStatus ==
    \/ ops < MaxOps /\ \E S \in SUBSET Paths \ {{}} : (Track(S) /\ Completed)
    \/ ops < MaxOps /\ SnapshotFull /\ Completed
    \/ ops < MaxOps
          /\ \E r \in RenamePairs : (Rename(r[1], r[2]) /\ Completed)
    \/ ops < MaxOps
          /\ \E p \in Paths, confirmed \in BOOLEAN :
                (Remove(p, confirmed) /\ Completed)
    \/ AddToPendingWrites /\ UNCHANGED ops
    \/ Status /\ UNCHANGED ops
    \/ /\ \E p \in Paths : \E c \in ContentsOf(p) \cup {Absent} : EditFile(p, c)
       /\ UNCHANGED ops
    \/ (\E p \in Ignorable : EditIgnore(p)) /\ UNCHANGED ops

SpecStatus == Init /\ [][NextStatus]_vars

\* the same writes with the snap tool among them
NextSnap ==
    \/ NextStatus
    \/ SnapNoFilesChanged /\ UNCHANGED ops

SpecSnap == Init /\ [][NextSnap]_vars

\* the operations of Next, and a jump that is stopped on its way
NextInterrupted ==
    \/ Next
    \/ (\E at \in JumpPositions : JumpInterrupted(at)) /\ UNCHANGED ops

SpecInterrupted == Init /\ [][NextInterrupted]_vars

\* ------------------------------------------------- an interrupted write
\* the process stops in _update_branch of a write, after _save_branches
\* and before update_ref: the commit is made and is the tip of the current
\* branch, refs/memov/HEAD still names the commit it was made on, and no
\* entry is queued; MemovManager.__init__ then runs again
WriteInterrupted ==
    /\ pc = "queue"
    /\ head' = ParentOf(head)
    /\ cache' = LoadPendingWrites(pending, pendingFile)
    /\ wEntry' = NoEntry
    /\ pc' = "idle"
    /\ last' = [Returned("restart", FALSE, last.made, {}) EXCEPT !.at = "ref"]
    /\ UNCHANGED <<wd, memignore, commits, registry, jumpLog, pending,
                   pendingFile, index, syncFailed, jTarget, jTodo, jArchive,
                   aside>>

NextCrashed ==
    \/ Next
    \/ WriteInterrupted /\ UNCHANGED ops

SpecCrashed == Init /\ [][NextCrashed]_vars

\* a project whose registry has lost its current branch: one call, a
\* track, has made commit 1 and queued its entry, the files may have been
\* edited since, and branches.json carries current: null
InitDetached ==
    /\ wd \in {w \in [Paths -> Contents \cup {Absent}] :
                \A p \in Paths : w[p] \in ContentsOf(p) \cup {Absent}}
    /\ memignore = {}
    /\ \E S \in SUBSET Paths \ {{}} :
         \E w0 \in {w \in [Paths -> Contents] :
                      \A p \in Paths : w[p] \in ContentsOf(p)} :
            /\ commits = <<[parent |-> NoCommit, tree |-> BlobTree(S, w0)]>>
            /\ cache = <<PendingEntry("track", 1, S, 1)>>
    /\ head = 1
    /\ registry = [exists |-> TRUE, current |-> NoBranch,
                   branches |-> [n \in {MainBranch} |-> 1]]
    /\ jumpLog = <<>>
    /\ pending = SavePendingWrites(cache)
    /\ pendingFile = TRUE
    /\ index = <<>>
    /\ syncFailed = {}
    /\ wEntry = NoEntry
    /\ pc = "idle"
    /\ jTarget = NoCommit
    /\ jTodo = {}
    /\ jArchive = NoArchive
    /\ last = Other
    /\ ops = 1
    /\ other = <<>>
    /\ text = NoText
    /\ built = ToBuild(<<>>)

SpecDetached == InitDetached /\ [][Next]_vars

\* a project whose first jump branch has been deleted: a track made commit
\* 1, two jumps to it made jump/1 and jump/2 (a jump to the tip itself
\* leaves no jump record), jump/1 was deleted, and the files may have been
\* edited since; ops is past the track and the first jump
InitJumpGap ==
    /\ wd \in {w \in [Paths -> Contents \cup {Absent}] :
                \A p \in Paths : w[p] \in ContentsOf(p) \cup {Absent}}
    /\ memignore = {}
    /\ \E S \in SUBSET Paths \ {{}} :
         \E w0 \in {w \in [Paths -> Contents] :
                      \A p \in Paths : w[p] \in ContentsOf(p)} :
            /\ commits = <<[parent |-> NoCommit, tree |-> BlobTree(S, w0)]>>
            /\ cache = <<PendingEntry("track", 1, S, 1)>>
    /\ head = 1
    /\ registry = [exists |-> TRUE, current |-> JumpName(2),
                   branches |-> [n \in {MainBranch, JumpName(2)} |-> 1]]
    /\ jumpLog = <<>>
    /\ pending = SavePendingWrites(cache)
    /\ pendingFile = TRUE
    /\ index = <<>>
    /\ syncFailed = {}
    /\ wEntry = NoEntry
    /\ pc = "idle"
    /\ jTarget = NoCommit
    /\ jTodo = {}
    /\ jArchive = NoArchive
    /\ last = Other
    /\ ops = 2
    /\ other = <<>>
    /\ text = NoText
    /\ built = ToBuild(<<>>)

SpecJumpGap == InitJumpGap /\ [][Next]_vars

\* ------------------------------------- the message of a commit, and its note
\* what a write was given, before it has made its commit
Given(kind, prompt, response, agent_plan, by_user) ==
    [NoText EXCEPT !.kind = kind, !.prompt = prompt, !.response = response,
                   !.agent_plan = agent_plan, !.by_user = by_user]

\* the write composes the message of its commit from what it was given
ComposeMessage ==
    /\ text.kind \in Writes
    /\ text.message = Empty
    /\ text' = [text EXCEPT
                  !.message = CommitMessage(text.kind, text.prompt,
                                 text.response, text.agent_plan, text.by_user)]
    /\ UNCHANGED <<wd, memignore, commits, head, registry, jumpLog, pending,
                   pendingFile, cache, index, syncFailed, wEntry, pc,
                   jumpLocals, last, other, built, ops>>

\* MemovManager.amend_commit_message on that commit
AmendCommitMessage(prompt, response, by_user) ==
    /\ text.message # Empty
    /\ text' = IF Falsy(prompt) /\ Falsy(response) THEN text
               ELSE [text EXCEPT
                       !.note = NoteContent(prompt, response, by_user),
                       !.note_prompt = prompt, !.note_response = response,
                       !.read = FALSE, !.parsed = NothingParsed,
                       !.entry = NoText.entry]
    /\ UNCHANGED <<wd, memignore, commits, head, registry, jumpLog, pending,
                   pendingFile, cache, index, syncFailed, wEntry, pc,
                   jumpLocals, last, other, built, ops>>

\* MemovManager.get_history(limit=1) with that commit the newest
GetHistory ==
    /\ text.message # Empty
    /\ text' = [text EXCEPT
                  !.read = TRUE,
                  !.parsed = ParseNoteContent(GetCommitMessage(text.message)),
                  !.entry = HistoryEntry(text.message, text.note)]
    /\ UNCHANGED <<wd, memignore, commits, head, registry, jumpLog, pending,
                   pendingFile, cache, index, syncFailed, wEntry, pc,
                   jumpLocals, last, other, built, ops>>

\* a write is about to make a commit, with any prompt, response and agent
\* plan
InitMessage ==
    /\ wd = [p \in Paths |-> Absent]
    /\ memignore = {}
    /\ commits = <<>>
    /\ head = NoCommit
    /\ registry = NoRegistry
    /\ jumpLog = <<>>
    /\ pending = <<>>
    /\ pendingFile = FALSE
    /\ cache = <<>>
    /\ index = <<>>
    /\ syncFailed = {}
    /\ wEntry = NoEntry
    /\ pc = "idle"
    /\ jTarget = NoCommit
    /\ jTodo = {}
    /\ jArchive = NoArchive
    /\ last = Returned("init", TRUE, NoCommit, {})
    /\ ops = 0
    /\ other = <<>>
    /\ \E kind \in Writes, prompt \in Optional, response \in Optional,
          by_user \in BOOLEAN :
          \E agent_plan \in IF kind \in Planned THEN Optional ELSE {PyNone} :
             text = Given(kind, prompt, response, agent_plan, by_user)
    /\ built = ToBuild(<<>>)

NextMessage ==
    \/ ComposeMessage
    \/ \E prompt \in Amended, response \in Amended, by_user \in BOOLEAN :
          AmendCommitMessage(prompt, response, by_user)
    \/ GetHistory

SpecMessage == InitMessage /\ [][NextMessage]_vars

\* ----------------------------------------- a tree of nested directories
\* GitManager.write_blob_to_bare_repo from the tree structure on: the
\* files are inserted, the trees created and the root tree committed
WriteBlobToBareRepo ==
    /\ ~built.done
    /\ LET made == TreeStructure(NoKeys, built.new_files)
       IN  built' = [built EXCEPT
                       !.done = TRUE, !.raised = ~made.ok,
                       !.tree = IF made.ok THEN CreateTreeRecursive(made.dict)
                                ELSE NotBuilt]
    /\ UNCHANGED <<wd, memignore, commits, head, registry, jumpLog, pending,
                   pendingFile, cache, index, syncFailed, wEntry, pc,
                   jumpLocals, last, other, text, ops>>

\* GitManager.get_files_and_blobs_by_commit on the commit made
ReadTree ==
    /\ built.done
    /\ ~built.raised
    /\ ~built.read
    /\ built' = [built EXCEPT !.read = TRUE, !.files = LsTree(built.tree)]
    /\ UNCHANGED <<wd, memignore, commits, head, registry, jumpLog, pending,
                   pendingFile, cache, index, syncFailed, wEntry, pc,
                   jumpLocals, last, other, text, ops>>

\* the files of a write: one to three paths, each with its blob
FileLists ==
    LET File == [path : NestedPaths, blob : BlobHashes]
        Lists == {<<f>> : f \in File}
                    \cup {<<f, g>> : f \in File, g \in File}
                    \cup {<<f, g, h>> : f \in File, g \in File, h \in File}
    IN  {l \in Lists :
            \A i, j \in 1..Len(l) : i # j => l[i].path # l[j].path}

InitTree ==
    /\ wd = [p \in Paths |-> Absent]
    /\ memignore = {}
    /\ commits = <<>>
    /\ head = NoCommit
    /\ registry = NoRegistry
    /\ jumpLog = <<>>
    /\ pending = <<>>
    /\ pendingFile = FALSE
    /\ cache = <<>>
    /\ index = <<>>
    /\ syncFailed = {}
    /\ wEntry = NoEntry
    /\ pc = "idle"
    /\ jTarget = NoCommit
    /\ jTodo = {}
    /\ jArchive = NoArchive
    /\ last = Returned("init", TRUE, NoCommit, {})
    /\ ops = 0
    /\ other = <<>>
    /\ text = NoText
    /\ \E new_files \in FileLists : built = ToBuild(new_files)

NextTree == WriteBlobToBareRepo \/ ReadTree

SpecTree == InitTree /\ [][NextTree]_vars

\* ------------------------------------------------------------ typing
TypeOK ==
    /\ \A p \in Paths : wd[p] \in ContentsOf(p) \cup {Absent}
    /\ memignore \subseteq Ignorable
    /\ head \in 0..Len(commits)
    /\ Len(commits) <= MaxOps
    /\ ops \in 0..MaxOps
    /\ pc \in {"idle", "queue", "delete", "extract", "branch", "ref", "record"}
    /\ pendingFile \in BOOLEAN
    /\ Len(cache) <= MaxOps
    /\ syncFailed \subseteq 1..Len(commits)
    /\ \A i \in 1..Len(index) : index[i] \in 1..Len(commits)
    /\ registry.exists \in BOOLEAN

\* ================================================================ claims
\* the tree of commit c of an object store cs
TreeIn(cs, c) == IF c \in 1..Len(cs) THEN cs[c].tree ELSE EmptyTree

\* the parent of commit c of an object store cs
ParentIn(cs, c) == IF c \in 1..Len(cs) THEN cs[c].parent ELSE NoCommit

\* the step is a successful call of op that made a commit
Wrote(op) == last'.op = op /\ Len(commits') = Len(commits) + 1

\* the step is a call of jump that returns a failure before the deletions
JumpFailsEarly ==
    pc = "idle" /\ pc' = "idle" /\ last'.op = "jump" /\ ~last'.ok /\ last' # last

\* a step of a running jump
JumpStep == pc \in JumpPositions \/ pc' \in JumpPositions

\* the relative paths of the files jump collected as ever tracked
EverTracked == {p \in Paths : AbsPath(p) \in jTodo}

\* ---------------------------------------------------------------- C1
\* C1: a scoped snapshot, taken on the tip T that HEAD names, records for
\* every path of T that is not listed the blob id T records, whatever is on
\* disk; a path whose blob id differs from T's is listed and in T; the new
\* commit is the tip of the current branch.
C1_ScopedSnapshotIsolation ==
    [][Wrote("snapshot_scoped") =>
         LET T == TreeOf(head)
             N == TreeIn(commits', Len(commits'))
         IN  /\ \A p \in TreePaths(T) \ last'.paths : N[p] = T[p]
             /\ \A p \in Paths : N[p] # T[p] =>
                                   p \in last'.paths /\ T[p] # NoBlob
             /\ head' = Len(commits')
             /\ CurrentTip(registry') = Len(commits')]_vars

\* a scoped snapshot of A was just taken while B, tracked and not listed,
\* differed on disk from the tip, and the new tip records B's old blob
C1_Witness ==
    /\ pc = "idle"
    /\ last.op = "snapshot_scoped"
    /\ last.made = head
    /\ \E A \in last.paths, B \in Paths \ last.paths :
         LET T == TreeOf(ParentOf(head))
         IN  /\ T[A] # NoBlob
             /\ T[B] # NoBlob
             /\ wd[B] # Absent
             /\ HashObject(wd[B]) # T[B]
             /\ TreeOf(head)[B] = T[B]

\* ---------------------------------------------------------------- C2
\* C2: a track that makes a commit records, for every path of the tip T
\* that HEAD names, the blob id T records, whatever is on disk; the new
\* tip's paths are T's paths and the listed files that are on disk, not
\* ignored and not in T.
C2_TrackKeepsTracked ==
    [][Wrote("track") =>
         LET T == TreeOf(head)
             N == TreeIn(commits', Len(commits'))
             newly == {p \in last'.paths : /\ wd[p] # Absent
                                           /\ p \notin memignore
                                           /\ T[p] = NoBlob}
         IN  /\ \A p \in TreePaths(T) : N[p] = T[p]
             /\ TreePaths(N) = TreePaths(T) \cup newly
             /\ head' = Len(commits')
             /\ CurrentTip(registry') = Len(commits')]_vars

\* a track just added a path while a tracked file had drifted on disk, and
\* the new tip records the tracked file's old blob
C2_Witness ==
    /\ pc = "idle"
    /\ last.op = "track"
    /\ last.made = head
    /\ LET T == TreeOf(ParentOf(head))
       IN  /\ \E p \in TreePaths(T) : /\ wd[p] # Absent
                                      /\ HashObject(wd[p]) # T[p]
                                      /\ TreeOf(head)[p] = T[p]
           /\ TreePaths(TreeOf(head)) # TreePaths(T)

\* ---------------------------------------------------------------- C3
\* C3: no step of a jump changes the tip, or the ancestry of the tip, of a
\* branch that exists; a jump inserts at most one branch and removes none.
C3_JumpNonDestructive ==
    [][JumpStep =>
         /\ \A n \in DOMAIN registry.branches :
              /\ n \in DOMAIN registry'.branches
              /\ registry'.branches[n] = registry.branches[n]
              /\ Ancestry(registry.branches[n])' = Ancestry(registry.branches[n])
         /\ Cardinality(DOMAIN registry'.branches \ DOMAIN registry.branches)
              <= 1
         /\ commits' = commits]_vars

\* a jump from a branch with a tip to another commit has returned: the
\* branch left still has the tip it had, the jump branch is current
C3_Witness ==
    /\ pc = "idle"
    /\ last.op = "jump"
    /\ last.ok
    /\ last.from_commit # NoCommit
    /\ last.from_commit # last.target
    /\ registry.branches[last.from_branch] = last.from_commit
    /\ registry.current = last.new_branch
    /\ registry.branches[last.new_branch] = last.target

\* ---------------------------------------------------------------- C4
\* C4: a jump that fails on its reference, on the registry or on the
\* archive leaves the working directory, the registry, HEAD, the jump log,
\* the commits and the pending writes as they were; and a step of a jump
\* changes the working directory only with the archive exported.
C4_JumpAbortsCleanly ==
    [][/\ JumpFailsEarly => UNCHANGED <<wd, memignore, commits, head,
                                        registry, jumpLog, queue>>
       /\ (JumpStep /\ wd' # wd) => jArchive.ok]_vars

\* a jump has just failed with the registry present, HEAD set and a tracked
\* file on disk
C4_Witness ==
    /\ pc = "idle"
    /\ last.op = "jump"
    /\ ~last.ok
    /\ registry.exists
    /\ head # NoCommit
    /\ \E p \in Paths : wd[p] # Absent /\ p \in FilesByCommit(head)

\* ---------------------------------------------------------------- C5
\* C5: a step of a jump deletes only files that are in the union of the
\* paths ever tracked and absent from the target's tree, and leaves every
\* file outside the union as it is.
C5_JumpDeletesOnlyStale ==
    [][JumpStep =>
         \A p \in Paths :
            /\ (wd[p] # Absent /\ wd'[p] = Absent) =>
                  p \in EverTracked /\ p \notin FilesByCommit(jTarget)
            /\ p \notin EverTracked => wd'[p] = wd[p]]_vars

C7_WriteAfterJumpForks ==
    [][(/\ pc = "idle"
        /\ last.op = "jump"
        /\ last.ok
        /\ (Wrote("snapshot") \/ Wrote("snapshot_scoped"))) =>
          /\ ParentIn(commits', Len(commits')) = last.target
          /\ registry'.current = last.new_branch
          /\ registry'.branches[last.new_branch] = Len(commits')
          /\ last.from_branch \in DOMAIN registry'.branches
          /\ registry'.branches[last.from_branch]
               = registry.branches[last.from_branch]]_vars

\* ---------------------------------------------------------------- C8
\* C8: after every completed operation every value of the registry's
\* branches map is the id of a commit of the object store.
C8_TipsResolve ==
    (pc = "idle" /\ registry.exists) =>
        \A n \in DOMAIN registry.branches : Resolves(registry.branches[n])

\* ---------------------------------------------------------------- C9
\* C9: whenever the registry exists, current is set and is a key of
\* branches.
C9_CurrentIsABranch ==
    registry.exists =>
        registry.current # NoBranch /\ registry.current \in DOMAIN registry.branches

\* the registry holds two branches or more and the current one is not main
C9_Witness ==
    /\ pc = "idle"
    /\ registry.exists
    /\ registry.current # MainBranch
    /\ registry.current \in DOMAIN registry.branches
    /\ Cardinality(DOMAIN registry.branches) >= 2

\* ---------------------------------------------------------------- C10
\* C10: a step that changes the tip of a branch from t to t' has t as the
\* parent of t', and is a write made while that branch is current; no step
\* of a jump changes the tip of a branch that exists.
C10_TipsMoveForward ==
    [][\A b \in DOMAIN registry.branches \cap DOMAIN registry'.branches :
         registry'.branches[b] # registry.branches[b] =>
            /\ ParentIn(commits', registry'.branches[b]) = registry.branches[b]
            /\ registry'.branches[b] = Len(commits')
            /\ Len(commits') = Len(commits) + 1
            /\ b = registry.current
            /\ pc = "idle"]_vars

\* the calls that record content or a prompt on the current branch
WriteCalls == {"track", "snapshot", "snapshot_scoped", "prompt-only"}

\* the step is a call of one of calls that changed the repository
Called(calls) ==
    /\ pc = "idle"
    /\ last'.op \in calls
    /\ <<wd, commits, head, registry>>' # <<wd, commits, head, registry>>

\* the step is the return of a call of one of calls that made a commit
Queued(calls) == pc = "queue" /\ pc' = "idle" /\ last'.op \in calls

\* ---------------------------------------------------------------- C11
\* C11: a Track, Snapshot or PromptOnlyCommit that returns success and is
\* not a no-op has made exactly one commit, the tip of the current branch
\* and HEAD, and has appended exactly one pending write, with that commit's
\* id; a call that makes no commit leaves the registry and HEAD as they
\* were and does not return success.
C11_WriteCommitsOnce ==
    [][/\ (Called(WriteCalls) /\ last'.ok) =>
            /\ Len(commits') = Len(commits) + 1
            /\ head' = Len(commits')
            /\ CurrentTip(registry') = Len(commits')
            /\ wEntry'.commit_hash = Len(commits')
            /\ pc' = "queue"
       /\ Queued(WriteCalls) =>
            /\ cache' = Append(cache, wEntry)
            /\ wEntry.commit_hash = head
            /\ LoadPendingWrites(pending', pendingFile') = cache'
       /\ (pc = "idle" /\ last'.op \in WriteCalls /\ commits' = commits) =>
            /\ UNCHANGED <<registry, head>>
            /\ last' # last => ~last'.ok]_vars

\* ---------------------------------------------------------------- C12
\* C12: at every moment a fresh load of pending_writes.json returns the
\* entries of the manager's list, in order; and every step leaves the list
\* as it is, appends the one entry of the write that made a commit, or is a
\* sync or a clear and empties it, so that the count is the number of
\* entries appended since the last sync or clear.
C12_PendingRoundTrip ==
    /\ [](LoadPendingWrites(pending, pendingFile) = cache)
    /\ [][\/ cache' = cache
          \/ /\ pc = "queue"
             /\ cache' = Append(cache, wEntry)
             /\ PendingWritesCount' = PendingWritesCount + 1
          \/ /\ last'.op \in {"sync", "clear"}
             /\ PendingWritesCount' = 0]_vars

\* a manager constructed after a stop has loaded two entries or more from
\* the file, whose parent_hash was written as null
C12_Witness ==
    /\ last.op = "restart"
    /\ pendingFile
    /\ PendingWritesCount >= 2
    /\ cache[1] # cache[2]
    /\ pending[1].parent_hash = JsonNull
    /\ cache[1].parent_hash = NoCommit
    /\ cache = LoadPendingWrites(pending, pendingFile)

\* the step is a sync_to_vectordb that found entries queued
SyncStep == pc = "idle" /\ last'.op = "sync" /\ last' # last

\* the ids index holds from position n on
IndexFrom(ix, n) == {ix[i] : i \in n..Len(ix)}

\* ---------------------------------------------------------------- C13
\* C13: a sync visits every queued entry once, in the order of the queue,
\* and each is either inserted or counted as failed; the pair it returns
\* sums to the entries queued at its start; after it the count is 0 and
\* pending_writes.json is absent, failures or not; only a sync inserts, an
\* id is inserted at most once, and an entry that failed is never inserted
\* later nor queued again.
C13_SyncAtMostOnce ==
    /\ [][/\ SyncStep =>
               LET inserted == IndexFrom(index', Len(index) + 1)
                   dropped == syncFailed' \ syncFailed
               IN  /\ last'.successful + last'.failed = PendingWritesCount
                   /\ last'.successful = Len(index') - Len(index)
                   /\ last'.failed = Cardinality(dropped)
                   /\ inserted \cup dropped = CommitsOf(cache)
                   /\ inserted \cap dropped = {}
                   /\ \A i, j \in Len(index) + 1..Len(index') :
                        i < j =>
                          \E m, n \in 1..Len(cache) :
                             /\ m < n
                             /\ cache[m].commit_hash = index'[i]
                             /\ cache[n].commit_hash = index'[j]
                   /\ PendingWritesCount' = 0
                   /\ ~pendingFile'
                   /\ LoadPendingWrites(pending', pendingFile') = <<>>
          /\ (index' # index \/ syncFailed' # syncFailed) => SyncStep
          /\ Len(index') >= Len(index)
          /\ SubSeq(index', 1, Len(index)) = index
          /\ syncFailed \subseteq syncFailed']_vars
    /\ [](/\ IndexFrom(index, 1) \cap syncFailed = {}
          /\ Cardinality(IndexFrom(index, 1)) = Len(index)
          /\ CommitsOf(cache) \cap (IndexFrom(index, 1) \cup syncFailed) = {})

\* a sync has just inserted every entry it found, after an earlier sync
\* failed on an entry: the queue is empty, the file is absent and the entry
\* that failed is not in the index
C13_Witness ==
    /\ pc = "idle"
    /\ last.op = "sync"
    /\ last.successful >= 1
    /\ last.failed = 0
    /\ syncFailed # {}
    /\ syncFailed \cap IndexFrom(index, 1) = {}
    /\ PendingWritesCount = 0
    /\ ~pendingFile

\* ---------------------------------------------------------------- C14
\* C14: when the process has stopped after a write's commit became the tip
\* and a manager has been constructed again, with no sync and no clear
\* since, the queue loaded from pending_writes.json holds an entry for that
\* commit.
C14_CrashKeepsPendingWrite ==
    (last.op = "restart" /\ last.made # NoCommit) =>
        /\ head = last.made
        /\ last.made \in CommitsOf(LoadPendingWrites(pending, pendingFile))
        /\ last.made \in CommitsOf(cache)

\* ---------------------------------------------------------------- C15
\* C15: whenever the registry exists, main and the current branch are keys
\* of branches; a step that removes a key is a delete_branch, removes that
\* one key, which is neither main nor the current branch, adds none, and
\* leaves current, the tip of every other branch, HEAD, the commits and the
\* working directory as they were.
C15_DeleteKeepsMainAndCurrent ==
    /\ [](registry.exists =>
            /\ MainBranch \in DOMAIN registry.branches
            /\ registry.current \in DOMAIN registry.branches)
    /\ [][(DOMAIN registry.branches \ DOMAIN registry'.branches # {}) =>
            /\ pc = "idle"
            /\ last'.op = "delete"
            /\ last'.ok
            /\ Cardinality(DOMAIN registry.branches \ DOMAIN registry'.branches)
                 = 1
            /\ DOMAIN registry'.branches \subseteq DOMAIN registry.branches
            /\ MainBranch \in DOMAIN registry'.branches
            /\ registry.current \in DOMAIN registry'.branches
            /\ registry'.current = registry.current
            /\ \A n \in DOMAIN registry'.branches :
                 registry'.branches[n] = registry.branches[n]
            /\ UNCHANGED <<wd, commits, head, jumpLog, queue>>]_vars

\* a delete_branch has just removed the first jump branch: main and the
\* second jump branch, which is current, are still keys
C15_Witness ==
    /\ pc = "idle"
    /\ last.op = "delete"
    /\ JumpName(1) \notin DOMAIN registry.branches
    /\ registry.current = JumpName(2)
    /\ DOMAIN registry.branches = {MainBranch, JumpName(2)}

C17_SnapshotKeepsPaths ==
    [][(/\ pc = "idle"
        /\ last'.op \in {"snapshot", "snapshot_scoped"}
        /\ last'.ok) =>
          LET before == FilesByCommit(head)
              after == TreePaths(TreeIn(commits', CurrentTip(registry')))
          IN  /\ after = before
              /\ (last'.op = "snapshot_scoped" /\ last'.paths \cap before = {})
                    => UNCHANGED <<commits, registry, head>>]_vars

\* ---------------------------------------------------------------- C18
\* C18: a Track of the paths the last call tracked, with nothing changed
\* since that call returned, makes no commit and leaves the registry, HEAD,
\* the pending-writes queue and the working directory as they are.
C18_RetrackIsNoOp ==
    [][(/\ pc = "idle"
        /\ last.op = "track"
        /\ last'.op = "track"
        /\ last'.paths = last.paths) =>
          UNCHANGED <<wd, commits, head, registry, queue, last>>]_vars

\* a Track has returned and nothing has changed since: its commit is HEAD
\* and the tip of the current branch, its entry is the last of the queue,
\* and a Track of the same paths finds no new file
C18_Witness ==
    /\ pc = "idle"
    /\ last.op = "track"
    /\ last.ok
    /\ last.made = head
    /\ CurrentTip(registry) = head
    /\ PendingWritesCount >= 1
    /\ cache[Len(cache)].commit_hash = head
    /\ \E p \in last.paths : p \in FilesByCommit(head) /\ wd[p] # Absent
    /\ FilterNewFiles(last.paths, FilesByCommit(head), TRUE, wd, memignore) = {}

\* ---------------------------------------------------------------- C19
\* C19: a Rename whose old path, or a Remove whose path, is not in the tree
\* of the tip the call reads, the commit HEAD names, makes no commit,
\* renames and deletes no file, and leaves the registry, HEAD and the
\* pending-writes queue as they were.
C19_UntrackedTargetRefused ==
    [][(/\ pc = "idle"
        /\ last'.op \in {"rename", "remove"}
        /\ last'.paths \cap FilesByCommit(head) = {}) =>
          /\ UNCHANGED <<wd, commits, head, registry, queue>>
          /\ pc' = "idle"]_vars

\* a commit is the tip, and a file that is not in its tree is on disk: a
\* Remove of it, and a Rename of it to a path that is free, pass every test
\* but the one on the tracked files
C19_Witness ==
    /\ pc = "idle"
    /\ head # NoCommit
    /\ CurrentTip(registry) = head
    /\ FilesByCommit(head) # {}
    /\ \E r \in RenamePairs :
         /\ Untracked(r[1], FilesByCommit(head))
         /\ wd[r[1]] # Absent
         /\ wd[r[2]] = Absent

RemoveStep == pc = "idle" /\ last'.op = "remove" /\ last' # last

\* C21: remove deletes a file that is on disk only after the prompt was
\* answered "y": a remove that took a file from the working directory, made
\* a commit, moved the registry or HEAD or queued an entry while its target
\* was on disk was confirmed, so a declined remove leaves the file, the
\* commits, the registry, HEAD and the pending queue as they were
C21_DeclinedRemoveChangesNothing ==
    [][\A p \in Paths :
         (/\ RemoveStep
          /\ p \in last'.paths
          /\ wd[p] # Absent
          /\ <<wd, commits, registry, head, pending, cache, wEntry>>'
               # <<wd, commits, registry, head, pending, cache, wEntry>>)
         => last'.confirmed]_vars

\* a confirmed remove has deleted a tracked file that was on disk and
\* committed the tree without it
C21_Witness ==
    /\ last.op = "remove"
    /\ last.confirmed
    /\ last.made = head
    /\ \E p \in last.paths :
         /\ wd[p] = Absent
         /\ p \in FilesByCommit(ParentOf(head))
         /\ p \notin FilesByCommit(head)

\* ---------------------------------------------------------------- C22
\* a call of create_prompt_only_commit that changed the project
PromptStep == pc = "idle" /\ last'.op = "prompt-only" /\ last' # last

\* C22: a prompt-only commit is made only on an existing tip T, the commit
\* refs/memov/HEAD names: it adds exactly one commit, whose tree is the tree
\* of T and whose parent is T, makes it the tip of the current branch and
\* HEAD, and then appends one pending write, for that commit and with an
\* empty file list; the working directory is not touched.  Without a tip
\* the call changes nothing, so no such step starts where HEAD is unset.
C22_PromptOnlyKeepsTree ==
    [][/\ PromptStep =>
            /\ Resolves(head)
            /\ Len(commits') = Len(commits) + 1
            /\ TreeIn(commits', Made) = TreeOf(head)
            /\ ParentIn(commits', Made) = head
            /\ CurrentTip(registry') = Made
            /\ registry'.current = registry.current
            /\ head' = Made
            /\ wd' = wd
            /\ cache' = cache
            /\ pc' = "queue"
       /\ Queued({"prompt-only"}) =>
            /\ Len(cache') = Len(cache) + 1
            /\ cache'[Len(cache')].commit_hash = head
            /\ cache'[Len(cache')].operation_type = "prompt-only"
            /\ cache'[Len(cache')].files = {}
            /\ pending' = SavePendingWrites(cache')
            /\ UNCHANGED <<commits, head, registry, wd>>]_vars

\* a prompt-only commit stands on a tip whose tree names a file, and its
\* pending write has been appended
C22_Witness ==
    /\ pc = "idle"
    /\ last.op = "prompt-only"
    /\ last.made = head
    /\ Resolves(ParentOf(head))
    /\ TreeOf(head) = TreeOf(ParentOf(head))
    /\ FilesByCommit(head) # {}
    /\ TreeOf(ParentOf(head)) # TreeOf(ParentOf(ParentOf(head)))
    /\ cache # <<>>
    /\ cache[Len(cache)].commit_hash = head
    /\ cache[Len(cache)].files = {}

\* ---------------------------------------------------------------- C23
\* a call of status
StatusStep == pc = "idle" /\ last'.op = "status"

\* C23: status puts every path of the workspace enumeration or of the tree
\* of the tip (the commit refs/memov/HEAD names) in exactly one class: only
\* in the workspace, untracked; only in the tip, deleted; in both with
\* different blob ids, modified; in both with the same blob id, in no list.
\* The three lists are pairwise disjoint and name no other path, and the
\* call changes neither the registry, HEAD, the working directory nor the
\* pending queue.
C23_StatusClassifies ==
    [][StatusStep =>
         LET ws == {p \in Paths :
                      /\ wd[p] # Absent
                      /\ p \notin memignore}
             tip == {p \in Paths : TreeOf(head)[p] # NoBlob}
             r == last'
         IN  /\ \A p \in Paths :
                  /\ p \in r.untracked <=> (p \in ws /\ p \notin tip)
                  /\ p \in r.deleted <=> (p \in tip /\ p \notin ws)
                  /\ p \in r.modified <=>
                        /\ p \in ws \cap tip
                        /\ TreeOf(head)[p] # HashObject(wd[p])
             /\ r.untracked \cap r.deleted = {}
             /\ r.untracked \cap r.modified = {}
             /\ r.deleted \cap r.modified = {}
             /\ r.untracked \cup r.deleted \cup r.modified \subseteq ws \cup tip
             /\ UNCHANGED <<registry, head, wd, commits, memignore,
                            pending, pendingFile, cache>>]_vars

\* status has returned a deleted file and a modified one while nothing is
\* ignored, the two paths of the tip's tree
C23_Witness ==
    /\ last.op = "status"
    /\ memignore = {}
    /\ last.deleted # {}
    /\ last.modified # {}
    /\ last.untracked = {}
    /\ last.deleted \cup last.modified = FilesByCommit(head)

\* ---------------------------------------------------------------- C24
\* a call of rename that changed the project
RenameStep == pc = "idle" /\ last'.op = "rename" /\ last' # last

\* C24: the ignore rules never filter a file that is already tracked:
\* whatever patterns are in force, status does not report as deleted a path
\* of the tip's tree that is on disk, and a rename of another file keeps
\* such a path in the tree it commits.
C24_IgnoreSparesTracked ==
    [][/\ StatusStep =>
            \A p \in FilesByCommit(head) :
               wd[p] # Absent => p \notin last'.deleted
       /\ RenameStep =>
            \A p \in FilesByCommit(head) \ last'.paths :
               wd'[p] # Absent /\ wd'[p] = wd[p]
                  => p \in FilesByCommit(CurrentTip(registry'))]_vars

\* ---------------------------------------------------------------- C25
\* the step of a jump that inserts its branch and saves the registry
BranchInserted == pc = "branch" /\ pc' = "ref"

\* C25: a jump to X that succeeds creates the branch jump/n for the
\* smallest positive n such that jump/n is no key of the registry, a number
\* freed by a deleted jump branch included; the new branch points at X and
\* is current, and every entry the registry had keeps its tip.
C25_JumpTakesSmallestFreeName ==
    [][BranchInserted =>
         \E n \in 1..(Cardinality(DOMAIN registry.branches) + 1) :
            /\ JumpName(n) \notin DOMAIN registry.branches
            /\ \A k \in 1..(n - 1) : JumpName(k) \in DOMAIN registry.branches
            /\ DOMAIN registry'.branches
                 = DOMAIN registry.branches \cup {JumpName(n)}
            /\ registry'.branches[JumpName(n)] = jTarget
            /\ registry'.current = JumpName(n)
            /\ last'.new_branch = JumpName(n)
            /\ \A b \in DOMAIN registry.branches :
                  registry'.branches[b] = registry.branches[b]]_vars

\* a jump has taken the name jump/1 again, freed while jump/2 exists, and a
\* later jump had to go on to jump/3
C25_Witness ==
    /\ pc = "idle"
    /\ last.op = "jump"
    /\ last.ok
    /\ last.new_branch = JumpName(3)
    /\ registry.current = JumpName(3)
    /\ {JumpName(1), JumpName(2)} \subseteq DOMAIN registry.branches
    /\ registry.branches[JumpName(3)] = last.target
    /\ head = last.target

\* ---------------------------------------------------------------- C26
\* the last step of a jump that succeeds
JumpRecorded == pc = "record" /\ pc' = "idle"

\* the jump record of a jump from tip f of branch b to commit t, for which
\* branch n was made
JumpRecordOf(r, f, t, b, n) ==
    /\ r.from_commit = f
    /\ r.to_commit = t
    /\ r.from_branch = b
    /\ r.new_branch = n

\* what a jump notes when it inserts its branch: the branch that was
\* current, the tip that branch had, and the branch made
JumpNotesOrigin ==
    BranchInserted =>
       /\ last'.from_branch = registry.current
       /\ last'.from_commit = CurrentTip(registry)
       /\ last'.new_branch = registry'.current
       /\ last'.target = jTarget

\* C26, as the code has it: a jump that succeeds appends exactly one jump
\* record, (from_commit, to_commit, from_branch, new_branch) = (tip of the
\* branch that was current, target, that branch, the jump branch made),
\* when that tip names a commit other than the target; a jump to the tip
\* itself, or from a branch whose tip names no commit, appends none.
C26_JumpRecordsMoves ==
    [][/\ JumpNotesOrigin
       /\ JumpRecorded =>
            IF last.from_commit # NoCommit /\ last.from_commit # jTarget
            THEN /\ Len(jumpLog') = Len(jumpLog) + 1
                 /\ SubSeq(jumpLog', 1, Len(jumpLog)) = jumpLog
                 /\ JumpRecordOf(jumpLog'[Len(jumpLog')], last.from_commit,
                                 jTarget, last.from_branch, last.new_branch)
            ELSE jumpLog' = jumpLog]_vars

\* C26, as claimed: every jump that succeeds appends exactly one jump
\* record with those four fields, a jump to the previous tip included.
C26_EveryJumpRecorded ==
    [][/\ JumpNotesOrigin
       /\ JumpRecorded =>
            /\ Len(jumpLog') = Len(jumpLog) + 1
            /\ SubSeq(jumpLog', 1, Len(jumpLog)) = jumpLog
            /\ JumpRecordOf(jumpLog'[Len(jumpLog')], last.from_commit,
                            jTarget, last.from_branch, last.new_branch)]_vars

\* a jump back to an older commit has left its record, and a jump to the
\* tip it stood on has then left none
C26_Witness ==
    /\ pc = "idle"
    /\ last.op = "jump"
    /\ last.ok
    /\ last.from_commit = last.target
    /\ Len(jumpLog) = 1
    /\ jumpLog[1].to_commit = last.target
    /\ jumpLog[1].from_commit # last.target
    /\ jumpLog[1].new_branch = last.from_branch
    /\ jumpLog[1].from_branch = MainBranch

\* ---------------------------------------------------------------- C27
\* C27: the jump record log is append-only: every step leaves it as it was
\* or appends one record behind the records it had, and only the last step
\* of a jump appends; the ids of its records are pairwise distinct and
\* strictly increasing along the log.
C27_JumpLogAppendOnly ==
    /\ [](\A i, j \in 1..Len(jumpLog) :
             i < j => jumpLog[i].id < jumpLog[j].id)
    /\ [][\/ jumpLog' = jumpLog
          \/ /\ JumpRecorded
             /\ Len(jumpLog') = Len(jumpLog) + 1
             /\ SubSeq(jumpLog', 1, Len(jumpLog)) = jumpLog]_vars

\* two jumps have been recorded, the second from the branch the first made
C27_Witness ==
    /\ pc = "idle"
    /\ Len(jumpLog) = 2
    /\ jumpLog[1].id = 1
    /\ jumpLog[2].id = 2
    /\ jumpLog[2].from_branch = jumpLog[1].new_branch
    /\ jumpLog[2].from_commit = jumpLog[1].to_commit

\* ---------------------------------------------------------------- C28
\* a jump is stopped at position at
StoppedAt(at) ==
    pc = "delete" /\ pc' = "idle" /\ last'.op = "jump" /\ last'.at = at

\* the working directory w holds every file of commit c with its content
MatchesCommit(w, c) ==
    \A p \in FilesByCommit(c) : w[p] = ContentOf(TreeOf(c)[p])

\* C28: between the deletion step and the end of the extraction is the only
\* place where stopping a jump is unsafe: a jump that started where HEAD is
\* the tip of the current branch and is stopped at any other position
\* leaves HEAD equal to the tip of the registry's current branch, and the
\* working directory either as it was before the jump, with the branch that
\* was current, or matching the target commit, with the new jump branch
\* current and pointing at the target.
C28_InterruptedJumpConsistent ==
    [][\A at \in JumpPositions \ {"extract"} :
         (StoppedAt(at) /\ head = CurrentTip(registry)) =>
            /\ head' = CurrentTip(registry')
            /\ \/ /\ wd' = wd
                  /\ registry' = registry
               \/ /\ MatchesCommit(wd', jTarget)
                  /\ registry'.current
                       = GenerateJumpBranchName(registry.branches)
                  /\ CurrentTip(registry') = jTarget]_vars

\* ---------------------------------------------------------------- C29
\* C29: the first commit of a fresh repository has no parent and creates
\* the registry {current: main, branches: {main: c1}} with HEAD = c1, and no
\* registry exists before it; from then on every step that is neither part
\* of a jump nor a switch leaves main the current branch and a key of the
\* registry.
C29_BootstrapOnMain ==
    /\ [](registry.exists <=> Len(commits) > 0)
    /\ [][/\ (Len(commits) = 0 /\ Len(commits') > 0) =>
               /\ head = NoCommit
               /\ Len(commits') = 1
               /\ commits'[1].parent = NoCommit
               /\ registry' = [exists |-> TRUE, current |-> MainBranch,
                               branches |-> [n \in {MainBranch} |-> 1]]
               /\ head' = 1
          /\ (/\ registry.current = MainBranch
              /\ ~JumpStep
              /\ last'.op # "switch") =>
               /\ registry'.current = MainBranch
               /\ MainBranch \in DOMAIN registry'.branches]_vars

\* three commits in a row on main, and nothing but main: the first has no
\* parent, HEAD and main name the last
C29_Witness ==
    /\ pc = "idle"
    /\ Len(commits) = 3
    /\ commits[1].parent = NoCommit
    /\ commits[2].parent = 1
    /\ commits[3].parent = 2
    /\ head = 3
    /\ registry = [exists |-> TRUE, current |-> MainBranch,
                   branches |-> [n \in {MainBranch} |-> 3]]
    /\ jumpLog = <<>>

\* ---------------------------------------------------------------- C30
\* a call of switch_branch that changed the registry or HEAD
SwitchStep ==
    /\ pc = "idle"
    /\ last'.op = "switch"
    /\ <<registry, head>>' # <<registry, head>>

\* C30: switch_branch(name) leaves name the current branch and HEAD equal
\* to branches[name]; a name that was no branch is created at the commit
\* HEAD names, which must exist; every branch that existed keeps its tip,
\* and the working directory, the commits and the pending queue are not
\* touched.
C30_SwitchSelectsBranch ==
    [][SwitchStep =>
         LET name == registry'.current
         IN  /\ name \in DOMAIN registry'.branches
             /\ head' = registry'.branches[name]
             /\ DOMAIN registry'.branches = DOMAIN registry.branches \cup {name}
             /\ name \notin DOMAIN registry.branches =>
                   /\ head # NoCommit
                   /\ registry'.branches[name] = head
             /\ \A b \in DOMAIN registry.branches :
                   registry'.branches[b] = registry.branches[b]
             /\ UNCHANGED <<wd, commits, jumpLog, pending, cache>>]_vars

\* ---------------------------------------------------------------- C31
\* what the message of the commit under study holds for a field the write
\* was given, as a history entry shows it
InMessage(value) == Reported(Str(value))

\* what a history entry is to show for a field the note may carry
NoteFirst(noted, given) == IF Falsy(noted) THEN InMessage(given) ELSE noted

\* C31: attaching a note to a commit changes no commit, branch tip, HEAD or
\* ancestry, and the history entry read afterwards shows, for prompt,
\* response and agent plan, the value of the note where the note carries a
\* non-empty one and the value of the message otherwise
C31_NoteTakesPriority ==
    /\ [](text.read /\ text.note # NoNote =>
            /\ text.entry.prompt = NoteFirst(text.note_prompt, text.prompt)
            /\ text.entry.response =
                  NoteFirst(text.note_response, text.response)
            /\ text.entry.agent_plan = InMessage(text.agent_plan))
    /\ [][text'.note # text.note =>
            UNCHANGED <<commits, head, registry>>]_vars

\* ---------------------------------------------------------------- C32
\* the labels of the commit message grammar
FieldLabels == {"Prompt:", "Response:", "Agent Plan:", "Source:", "Files:"}

\* a value that is a string none of whose lines begins with a label
Unlabelled(value) ==
    /\ value # PyNone
    /\ \A i \in 1..Len(value) :
          value[i] = Blank \/ value[i][1] \notin FieldLabels

\* C32: for every prompt, response and agent plan with no line that begins
\* with a label, parsing the message Track, Snapshot or PromptOnlyCommit
\* wrote for them returns exactly those values, the Source and Files lines
\* being captured into none of them
C32_MessageRoundTrip ==
    /\ text.read
    /\ text.kind \in {"track", "snapshot_files", "snapshot", "prompt"}
    /\ Unlabelled(text.prompt)
    /\ Unlabelled(text.response)
    /\ text.kind \in Planned => Unlabelled(text.agent_plan)
    => /\ text.parsed.prompt = text.prompt
       /\ text.parsed.response = text.response
       /\ text.kind \in Planned => text.parsed.agent_plan = text.agent_plan

\* ---------------------------------------------------------------- C33
\* the labels that open the lines of a message, in the order of the lines
RECURSIVE LabelsOf(_)
LabelsOf(message) ==
    IF message = <<>> THEN <<>>
    ELSE IF message[1] # Blank /\ message[1][1] \in FieldLabels
         THEN <<message[1][1]>> \o LabelsOf(Tail(message))
         ELSE LabelsOf(Tail(message))

\* the labels of a message follow an order, none of them twice
Rank(order, label) == CHOOSE i \in 1..Len(order) : order[i] = label
InOrder(found, order) ==
    \A i, j \in 1..Len(found) :
        i < j => Rank(order, found[i]) < Rank(order, found[j])

\* no line of what the write was given begins with a label
GivenUnlabelled ==
    \A value \in {text.prompt, text.response, text.agent_plan} :
        value = PyNone \/ Unlabelled(value)

\* C33 as amended: in the message of every write whose prompt, response
\* and agent plan have no line that begins with a label, the labels present
\* come in the order Files, Prompt, Response, Agent Plan, Source, each at
\* most once
C33_LabelsInWrittenOrder ==
    text.message # Empty /\ GivenUnlabelled =>
        InOrder(LabelsOf(text.message),
                <<"Files:", "Prompt:", "Response:", "Agent Plan:", "Source:">>)

\* C33 as stated: the labels come in the order Prompt, Response, Agent
\* Plan, Source, Files
C33_LabelsInStatedOrder ==
    text.message # Empty =>
        InOrder(LabelsOf(text.message),
                <<"Prompt:", "Response:", "Agent Plan:", "Source:", "Files:">>)

\* a scoped snapshot wrote all five labels around a prompt of two lines
C33_Witness ==
    /\ text.kind = "snapshot_files"
    /\ GivenUnlabelled
    /\ Len(text.prompt) = 2
    /\ LabelsOf(text.message) =
          <<"Files:", "Prompt:", "Response:", "Agent Plan:", "Source:">>

\* ---------------------------------------------------------------- C34
\* no path of the files is a directory above another, and no two of them
\* are the same path written with different separators
PrefixFree(new_files) ==
    \A i, j \in 1..Len(new_files) :
        i # j =>
            LET p == NormalizePathSeparator(new_files[i].path)
                q == NormalizePathSeparator(new_files[j].path)
            IN  /\ p # q
                /\ ~(Len(p) < Len(q) /\ SubSeq(q, 1, Len(p) + 1) = p \o <<"/">>)

\* the files of a write with their separators made forward slashes
Normalized(new_files) ==
    [i \in 1..Len(new_files) |->
        [path |-> NormalizePathSeparator(new_files[i].path),
         blob |-> new_files[i].blob]]

\* C34: for files none of whose paths is a directory above another, the
\* tree made by inserting each path by its segments reads back as exactly
\* those paths, each with the blob it was inserted with, and is the tree
\* the same paths written with forward slashes make
C34_TreeRoundTrip ==
    built.read /\ PrefixFree(built.new_files) =>
        /\ built.files =
              {Normalized(built.new_files)[i] : i \in 1..Len(built.new_files)}
        /\ built.tree =
              CreateTreeRecursive(
                  TreeStructure(NoKeys, Normalized(built.new_files)).dict)

\* three files, one at the root and two nested under the same directory
\* with different separators and blobs, were committed and read back
C34_Witness ==
    /\ built.read
    /\ PrefixFree(built.new_files)
    /\ Len(built.new_files) = 3
    /\ \E i, j \in 1..3 :
          /\ built.new_files[i].path = <<"a", "\\", "b", "\\", "c">>
          /\ built.new_files[j].path = <<"a", "/", "d">>
          /\ built.new_files[i].blob # built.new_files[j].blob
    /\ Cardinality(built.files) = 3

\* ---------------------------------------------------------------- C35
\* a step in which the snap tool, given no files, answered [SUCCESS]
SnapStep == last'.op = "snap" /\ last'.ok /\ last.op # "snap"

\* C35: a snap call with no files changed that answers [SUCCESS] has
\* recorded the interaction: the commits or the pending writes have a new
\* entry
C35_SnapRecordsInteraction ==
    [][SnapStep =>
          \/ Len(commits') = Len(commits) + 1
          \/ Len(LoadPendingWrites(pending', pendingFile')) =
                Len(LoadPendingWrites(pending, pendingFile)) + 1]_vars

\* ---------------------------------------------------------------- C36
\* C36: after a snapshot with an agent plan of several lines, the newest
\* history entry has the first line of the plan as its agent plan
C36_HistoryShowsFirstPlanLine ==
    /\ text.read
    /\ text.note = NoNote
    /\ text.kind \in {"snapshot_files", "snapshot"}
    /\ text.agent_plan # PyNone
    /\ Len(text.agent_plan) > 1
    => text.entry.agent_plan = <<text.agent_plan[1]>>

\* ---------------------------------------------------------------- C37
\* C37: after every completed operation, whenever the registry exists
\* refs/memov/HEAD names the commit that is the tip of the current branch,
\* and so the parent of every new commit is the tip its branch had
C37_HeadIsCurrentTip ==
    /\ [](pc = "idle" /\ registry.exists => head = CurrentTip(registry))
    /\ [][Len(commits') = Len(commits) + 1 /\ registry.exists =>
            commits'[Len(commits')].parent = CurrentTip(registry)]_vars

\* ---------------------------------------------------------------- C38
\* C38: the parent_hash of every pending write a write operation appends
\* is the parent of the commit the entry is about, the tip its branch had
\* before the operation, and is absent only for a root commit
C38_PendingParentIsCommitParent ==
    [][Len(cache') = Len(cache) + 1 =>
          cache'[Len(cache')].parent_hash =
              ParentIn(commits', cache'[Len(cache')].commit_hash)]_vars

\* ---------------------------------------------------------------- C39
\* the pending writes that are on disk
OnDisk == LoadPendingWrites(pending, pendingFile)

\* C39: with managers used one after the other no pending write is lost:
\* queueing the entry of a new commit leaves on disk the entries that were
\* there, in their order, followed by the new one, whichever manager made
\* the commit and whenever it was constructed
C39_NoPendingWriteLost ==
    [][pc = "queue" /\ pc' = "idle" => OnDisk' = Append(OnDisk, wEntry)]_vars

\* ---------------------------------------------------------------- C40
\* the commits reachable from a tip in an object store cs
RECURSIVE AncestryIn(_, _)
AncestryIn(cs, tip) ==
    IF tip \notin 1..Len(cs) THEN {}
    ELSE {tip} \cup AncestryIn(cs, ParentIn(cs, tip))

\* C40: whether or not a write was stopped on its way, every commit the
\* registry has recorded as the tip of a branch stays that tip or an
\* ancestor of it while the branch exists: over every step, the commit a
\* branch had as its tip is in the ancestry of the commit it has after
C40_HistorySurvivesCrash ==
    [][\A n \in DOMAIN registry.branches \cap DOMAIN registry'.branches :
          Resolves(registry.branches[n])
              /\ registry'.branches[n] \in 1..Len(commits')
          => registry.branches[n]
                \in AncestryIn(commits', registry'.branches[n])]_vars

====
